---- MODULE Spec2Model ----
(***************************************************************************)
(* Frontend-Agent: the generation phase (agent/generator.js, agent/llm.js), *)
(* the extraction (extractor.js) and the pipeline of main with crawlPages.  *)
(*                                                                         *)
(* Source text, page titles, paths and prompts are TLA+ strings, and every *)
(* substring or regular-expression test of the source is computed on the   *)
(* characters of the string, as String.prototype.includes and RegExp do.   *)
(* The hosted generation service is the environment: each request either   *)
(* fails (transport/service error) or answers with a text.                 *)
(***************************************************************************)
EXTENDS Integers, Sequences, FiniteSets, TLC

\* --------------------------------------------------------------------------
\* Bounds of the model
\* --------------------------------------------------------------------------
MaxPages == 2
MaxCandidates == 3
MaxItems == 5
MaxBatchSize == 3
MaxDeclarations == 3
MaxResponses == 6

\* --------------------------------------------------------------------------
\* Strings
\* --------------------------------------------------------------------------

\* s.charAt(i - 1): the i-th character, as a one-character string
CharAt(s, i) == SubSeq(s, i, i)

\* s.includes(n)
Includes(s, n) ==
  \E i \in 1..(Len(s) - Len(n) + 1) : SubSeq(s, i, i + Len(n) - 1) = n

\* s.endsWith(n)
EndsWith(s, n) ==
  Len(s) >= Len(n) /\ SubSeq(s, Len(s) - Len(n) + 1, Len(s)) = n

Letters == "abcdefghijklmnopqrstuvwxyz"
Capitals == "ABCDEFGHIJKLMNOPQRSTUVWXYZ"
Digits == "0123456789"

IsLower(c) == \E k \in 1..Len(Letters) : CharAt(Letters, k) = c
IsUpper(c) == \E k \in 1..Len(Capitals) : CharAt(Capitals, k) = c
IsDigit(c) == \E k \in 1..Len(Digits) : CharAt(Digits, k) = c
\* the character class [a-zA-Z0-9]
IsAlnum(c) == IsLower(c) \/ IsUpper(c) \/ IsDigit(c)
\* the character class \s
IsSpace(c) == c \in {" ", "\n", "\t"}

\* one character lower-cased / upper-cased
LowerChar(c) ==
  IF IsUpper(c)
    THEN CharAt(Letters, CHOOSE k \in 1..Len(Capitals) : CharAt(Capitals, k) = c)
    ELSE c
UpperChar(c) ==
  IF IsLower(c)
    THEN CharAt(Capitals, CHOOSE k \in 1..Len(Letters) : CharAt(Letters, k) = c)
    ELSE c

RECURSIVE ToLowerCase(_)
ToLowerCase(s) ==
  IF s = "" THEN "" ELSE LowerChar(CharAt(s, 1)) \o ToLowerCase(SubSeq(s, 2, Len(s)))

\* s matches /n/i, n given in lower case: the i flag compares letters
\* without case
MatchesIgnoreCase(s, n) ==
  \E i \in 1..(Len(s) - Len(n) + 1) :
    \A k \in 1..Len(n) : LowerChar(CharAt(s, i + k - 1)) = CharAt(n, k)

\* s.replace(/[^a-zA-Z0-9]/g, '')
RECURSIVE StripNonAlnum(_)
StripNonAlnum(s) ==
  IF s = "" THEN ""
  ELSE (IF IsAlnum(CharAt(s, 1)) THEN CharAt(s, 1) ELSE "")
         \o StripNonAlnum(SubSeq(s, 2, Len(s)))

\* xs.join(sep) for a sequence of strings
RECURSIVE Join(_, _)
Join(xs, sep) ==
  IF Len(xs) = 0 THEN ""
  ELSE IF Len(xs) = 1 THEN xs[1]
  ELSE xs[1] \o sep \o Join(Tail(xs), sep)

\* the elements of an array
Range(xs) == {xs[k] : k \in DOMAIN xs}

\* path.basename(file, '.tsx')
Basename(file) == SubSeq(file, 1, Len(file) - 4)

\* xs.includes(x) for an array
ArrayIncludes(xs, x) == \E i \in 1..Len(xs) : xs[i] = x

\* the prefix of s before the first occurrence of sep: s.split(sep)[0]
RECURSIVE SplitFirst(_, _)
SplitFirst(s, sep) ==
  IF Len(s) < Len(sep) THEN s
  ELSE IF SubSeq(s, 1, Len(sep)) = sep THEN ""
  ELSE CharAt(s, 1) \o SplitFirst(SubSeq(s, 2, Len(s)), sep)

\* s.split('/'): the pieces between slashes, empty ones included
RECURSIVE SplitSlash(_)
SplitSlash(s) ==
  IF ~Includes(s, "/") THEN <<s>>
  ELSE LET i == CHOOSE k \in 1..Len(s) :
                  CharAt(s, k) = "/" /\ \A j \in 1..(k - 1) : CharAt(s, j) # "/"
       IN <<SubSeq(s, 1, i - 1)>> \o SplitSlash(SubSeq(s, i + 1, Len(s)))

\* seg.match(/^\d+$/)
IsNumeric(seg) == seg # "" /\ \A k \in 1..Len(seg) : IsDigit(CharAt(seg, k))

\* --------------------------------------------------------------------------
\* Program constants
\* --------------------------------------------------------------------------

\* generatePages: const MAX_RETRIES = 3
MAX_RETRIES == 3

\* buildPagePrompt: a cleaned title longer than this is replaced by a name
\* derived from the page path
MaxPageNameLen == 20

\* The separator of pageTitle.split(...) and the bullet of the issue list are
\* non-ASCII literals in the source; one ASCII character stands for each.
TitleSeparator == "|"
Bullet == "*"

\* --------------------------------------------------------------------------
\* The page checklist (generator.js, validatePageFunctionality)
\* --------------------------------------------------------------------------

IssueButtons == "Buttons missing onClick handlers"
IssueCheckboxes == "Checkboxes missing onChange handlers"
IssueTextInputs == "Text inputs missing onChange handlers"
IssueAdd == "Add/Create button without add function"
IssueDelete == "Delete/Remove button without delete function"
IssueEdit == "Edit button without edit functionality (missing editTask/startEdit/saveEdit)"
IssueToggle == "Checkboxes without toggle function"
IssueUseState == "Interactive elements without useState"
IssueNavigate == "Task list page missing navigation to task detail pages (needs useNavigate)"
IssueProjectAdd == "Project page missing Add Project functionality"
IssueProjectEdit == "Project page missing Edit Project functionality"
IssueProjectDelete == "Project page missing Delete Project functionality"

\* issues.push(s) under a condition
PushIf(cond, s) == IF cond THEN <<s>> ELSE <<>>

\* code.match(/Add|Create/i), code.match(/Delete|Remove/i), code.match(/Edit/i)
MatchAddCreate(code) == MatchesIgnoreCase(code, "add") \/ MatchesIgnoreCase(code, "create")
MatchDeleteRemove(code) == MatchesIgnoreCase(code, "delete") \/ MatchesIgnoreCase(code, "remove")
MatchEdit(code) == MatchesIgnoreCase(code, "edit")

\* A variant of the checklist without the item for task list pages
validateWithoutNavigation(code, pageFilename) ==
  LET hasButtons == Includes(code, "<button")
      isProject == Includes(pageFilename, "Project") /\ Includes(code, "project")
  IN PushIf(hasButtons /\ ~Includes(code, "onClick"), IssueButtons)
     \o PushIf(isProject /\ ~Includes(code, "addProject"), IssueProjectAdd)
     \o PushIf(isProject /\ ~Includes(code, "editProject"), IssueProjectEdit)
     \o PushIf(isProject /\ ~Includes(code, "deleteProject"), IssueProjectDelete)

validatePageFunctionality(code, pageFilename) ==
  LET hasButtons == Includes(code, "<button")
      hasCheckboxes == Includes(code, "type=\"checkbox\"")
      hasTextInputs == Includes(code, "type=\"text\"")
      hasCRUDButtons == MatchAddCreate(code) \/ MatchDeleteRemove(code) \/ MatchEdit(code)
      hasAddFunction == Includes(code, "addTask") \/ Includes(code, "addItem")
                          \/ Includes(code, "addProject")
      hasDeleteFunction == Includes(code, "deleteTask") \/ Includes(code, "deleteItem")
                             \/ Includes(code, "deleteProject")
      hasToggleFunction == Includes(code, "toggleTask") \/ Includes(code, "toggleItem")
      hasEditFunction == Includes(code, "editTask") \/ Includes(code, "editItem")
                           \/ Includes(code, "editProject") \/ Includes(code, "startEdit")
                           \/ Includes(code, "saveEdit") \/ Includes(code, "setEditingId")
      isProject == Includes(pageFilename, "Project") /\ Includes(code, "project")
  IN PushIf(hasButtons /\ ~Includes(code, "onClick"), IssueButtons)
     \o PushIf(hasCheckboxes /\ ~Includes(code, "onChange"), IssueCheckboxes)
     \o PushIf(hasTextInputs /\ ~Includes(code, "onChange"), IssueTextInputs)
     \o PushIf(hasCRUDButtons /\ ~hasAddFunction /\ MatchAddCreate(code), IssueAdd)
     \o PushIf(hasCRUDButtons /\ ~hasDeleteFunction /\ MatchDeleteRemove(code), IssueDelete)
     \o PushIf(hasCRUDButtons /\ ~hasEditFunction /\ MatchEdit(code), IssueEdit)
     \o PushIf(hasCRUDButtons /\ hasCheckboxes /\ ~hasToggleFunction, IssueToggle)
     \o PushIf((hasButtons \/ hasCheckboxes \/ hasTextInputs) /\ ~Includes(code, "useState"),
               IssueUseState)
     \o PushIf(Includes(pageFilename, "Task") /\ Includes(code, "tasks.map")
                 /\ ~Includes(code, "useNavigate"), IssueNavigate)
     \o PushIf(isProject /\ ~Includes(code, "addProject"), IssueProjectAdd)
     \o PushIf(isProject /\ ~Includes(code, "editProject"), IssueProjectEdit)
     \o PushIf(isProject /\ ~Includes(code, "deleteProject"), IssueProjectDelete)

\* --------------------------------------------------------------------------
\* File names (generator.js, getPageFilename)
\* --------------------------------------------------------------------------

\* A page of crawlData: hasPath is FALSE when the record has no path property
\* (pages reloaded from extraction-results.json carry url, title and
\* screenshotPath only).
Capitalize(seg) ==
  UpperChar(CharAt(seg, 1)) \o ToLowerCase(SubSeq(seg, 2, Len(seg)))

MeaningfulSegment(seg) == seg # "" /\ ~IsNumeric(seg)

\* segments.filter(seg => seg && !seg.match(/^\d+$/))
RECURSIVE MeaningfulSegments(_)
MeaningfulSegments(xs) ==
  IF Len(xs) = 0 THEN <<>>
  ELSE (IF MeaningfulSegment(xs[1]) THEN <<xs[1]>> ELSE <<>>) \o MeaningfulSegments(Tail(xs))

getPageFilename(hasPath, pagePath, pageTitle) ==
  IF ~hasPath \/ pagePath = "" THEN "HomePage.tsx"
  ELSE IF Includes(pagePath, "/home") THEN "HomePage.tsx"
  ELSE IF Includes(pagePath, "/project")
    THEN (IF pageTitle # "" /\ Includes(ToLowerCase(pageTitle), "my tasks")
            THEN "TasksPage.tsx" ELSE "ProjectsPage.tsx")
  ELSE IF Includes(pagePath, "/tasks") \/ Includes(pagePath, "/my_tasks") THEN "TasksPage.tsx"
  ELSE LET segments == MeaningfulSegments(SplitSlash(pagePath))
       IN IF Len(segments) = 0 THEN "HomePage.tsx"
          ELSE Capitalize(segments[Len(segments)]) \o "Page.tsx"

\* --------------------------------------------------------------------------
\* Prompts (llm.js, buildPagePrompt)
\* --------------------------------------------------------------------------

\* previousIssues = null and an empty array read the same to buildPagePrompt
\* (validationIssues && validationIssues.length > 0); both are <<>> here.
NoIssues == <<>>

\* the "Implementation requirements" line of one known issue
RequirementIf(validationIssues, issue, line) ==
  IF ArrayIncludes(validationIssues, issue) THEN Bullet \o " " \o line \o "\n" ELSE ""

RECURSIVE BulletLines(_)
BulletLines(validationIssues) ==
  IF Len(validationIssues) = 0 THEN <<>>
  ELSE <<Bullet \o " " \o validationIssues[1]>> \o BulletLines(Tail(validationIssues))

ValidationSection(validationIssues) ==
  IF Len(validationIssues) > 0
    THEN "\nREQUIRED FUNCTIONALITY IMPROVEMENTS:\n\n"
         \o "Please ensure the following functionality is included:\n\n"
         \o Join(BulletLines(validationIssues), "\n")
         \o "\n\nImplementation requirements:\n"
         \o RequirementIf(validationIssues, IssueButtons,
                          "Add onClick handlers to buttons that perform actions")
         \o RequirementIf(validationIssues, IssueCheckboxes,
                          "Add onChange handlers to checkboxes for state updates")
         \o RequirementIf(validationIssues, IssueTextInputs,
                          "Add onChange handlers to text inputs with state binding")
         \o RequirementIf(validationIssues, IssueAdd,
                          "Include addTask or addItem function to append to state array")
         \o RequirementIf(validationIssues, IssueDelete,
                          "Include deleteTask or deleteItem function to filter state array")
         \o RequirementIf(validationIssues, IssueToggle,
                          "Include toggleTask or toggleItem function to update completion status")
         \o RequirementIf(validationIssues, IssueUseState,
                          "Add useState hook at component top: const [items, setItems] = useState([...])")
         \o "\n"
    ELSE ""

\* components.map(c => `- ${c.name} (${c.type})`)
RECURSIVE ComponentLines(_)
ComponentLines(comps) ==
  IF Len(comps) = 0 THEN <<>>
  ELSE <<"- " \o comps[1].name \o " (" \o comps[1].type \o ")">> \o ComponentLines(Tail(comps))

\* pageTitle.split(sep)[0].trim().replace(/[^a-zA-Z0-9\s]/g, '').replace(/\s+/g, '')
CleanPageName(pageTitle) == StripNonAlnum(SplitFirst(pageTitle, TitleSeparator))

\* pageData.path.split('/').filter(Boolean)
RECURSIVE NonEmpty(_)
NonEmpty(xs) ==
  IF Len(xs) = 0 THEN <<>>
  ELSE (IF xs[1] # "" THEN <<xs[1]>> ELSE <<>>) \o NonEmpty(Tail(xs))

\* buildPagePrompt throws (TypeError: pageData.path is undefined) exactly when
\* the cleaned title is too long and the page record has no path.
BuildPagePromptThrows(pageData) ==
  LET pageTitle == IF pageData.title = "" THEN "Page" ELSE pageData.title
  IN Len(CleanPageName(pageTitle)) > MaxPageNameLen /\ ~pageData.hasPath

\* The prompt text: the corrective section, the page information and the
\* component list; the fixed instruction text that follows is left out, and so
\* are the design tokens of pageData.parsedCSS.
buildPagePrompt(pageData, comps, validationIssues) ==
  LET pageTitle == IF pageData.title = "" THEN "Page" ELSE pageData.title
      cleaned == CleanPageName(pageTitle)
      pathParts == NonEmpty(SplitSlash(pageData.path))
      pageName == IF Len(cleaned) > MaxPageNameLen
                    THEN (IF Len(pathParts) > 0 THEN Capitalize(pathParts[1]) ELSE "Home")
                    ELSE cleaned
  IN "Page Replication Task\n" \o ValidationSection(validationIssues)
     \o "\nPAGE INFORMATION\nPage: " \o pageTitle
     \o "\nComponent: " \o pageName \o "Page\n\n"
     \o "Available Components (PRE-BUILT - JUST IMPORT):\n"
     \o Join(ComponentLines(comps), "\n") \o "\n"

\* --------------------------------------------------------------------------
\* Placeholders (llm.js, generateFallbackComponent / generateFallbackPage)
\* --------------------------------------------------------------------------

\* (the template's back quotes around the class name are written as single quotes)
generateFallbackComponent(component) ==
  "import React from 'react';\n\ninterface " \o component.name \o "Props {\n"
  \o "  className?: string;\n}\n\nexport const " \o component.name \o ": React.FC<"
  \o component.name \o "Props> = ({ className = '' }) => {\n  return (\n"
  \o "    <div className={'" \o component.type \o " ${className}'}>\n"
  \o "      <p className=\"text-gray-600\">\n        " \o component.name \o " component\n"
  \o "      </p>\n    </div>\n  );\n};\n\nexport default " \o component.name \o ";"

RECURSIVE ImportLines(_)
ImportLines(comps) ==
  IF Len(comps) = 0 THEN <<>>
  ELSE <<"import " \o comps[1].name \o " from '../components/" \o comps[1].name \o "';">>
       \o ImportLines(Tail(comps))

RECURSIVE UsageLines(_)
UsageLines(comps) ==
  IF Len(comps) = 0 THEN <<>>
  ELSE <<"      <" \o comps[1].name \o " />">> \o UsageLines(Tail(comps))

generateFallbackPage(pageData, comps) ==
  "import React from 'react';\n" \o Join(ImportLines(comps), "\n") \o "\n\nconst "
  \o StripNonAlnum(pageData.title) \o "Page: React.FC = () => {\n  return (\n"
  \o "    <div className=\"min-h-screen bg-gray-50\">\n" \o Join(UsageLines(comps), "\n")
  \o "\n    </div>\n  );\n};\n\nexport default " \o StripNonAlnum(pageData.title) \o "Page;"

\* --------------------------------------------------------------------------
\* The generation service and the two generators (llm.js)
\* --------------------------------------------------------------------------

\* One request to the service: it fails (timeout, service error, malformed
\* answer: anything that throws inside the generator's try block) or yields
\* the text extractCodeFromResponse returns for its answer.
ServiceFailure == [ok |-> FALSE, code |-> ""]
Answer(code) == [ok |-> TRUE, code |-> code]

\* /const\s+\[(tasks|projects|items|data)/
HasStateVariable(code) ==
  \E i \in 1..Len(code) : \E j \in (i + 6)..Len(code) :
    /\ SubSeq(code, i, i + 4) = "const"
    /\ \A k \in (i + 5)..(j - 1) : IsSpace(CharAt(code, k))
    /\ \E name \in {"[tasks", "[projects", "[items", "[data"} :
         SubSeq(code, j, j + Len(name) - 1) = name

\* generatePage's own five-item check of the first answer
PassesFiveItemCheck(code) ==
  /\ Includes(code, "useState")
  /\ HasStateVariable(code)
  /\ (Includes(code, "const add") \/ Includes(code, "const delete")
        \/ Includes(code, "const toggle"))
  /\ Includes(code, "onClick")
  /\ Includes(code, ".map(")

\* --------------------------------------------------------------------------
\* Inputs of a run
\* --------------------------------------------------------------------------

\* Pages as crawlPage records them (url, path, title, ...)
PageHome == [hasPath |-> TRUE, path |-> "/home", title |-> "Home"]
PageTasks == [hasPath |-> TRUE, path |-> "/tasks", title |-> "My tasks"]
PageSettings == [hasPath |-> TRUE, path |-> "/settings", title |-> "Edit Profile"]
\* Pages as the regenerate-only entry point rebuilds them from
\* extraction-results.json, which keeps url, title and screenshotPath only
PageReloaded == [hasPath |-> FALSE, path |-> "", title |-> "Home"]
PageReloadedLong == [hasPath |-> FALSE, path |-> "", title |-> "Project Management Dashboard"]

PageProjects == [hasPath |-> TRUE, path |-> "/projects", title |-> "Projects"]
\* a second project page of the crawl list (PAGES_TO_CRAWL names it)
PageProjectList == [hasPath |-> TRUE, path |-> "/0/project/2/list/3", title |-> "Roadmap"]

CrawledPages == {PageHome, PageTasks, PageSettings}
ChecklistPages == CrawledPages \cup {PageProjects}
ReloadedPages == {PageReloaded, PageReloadedLong}

\* the lists of 0..n distinct elements of S
DistinctSeqs(S, n) ==
  {xs \in UNION {[1..k -> S] : k \in 0..n} :
     \A i, j \in DOMAIN xs : i # j => xs[i] # xs[j]}

\* crawlData: a non-empty list of pages, all crawled or all reloaded
CrawlLists ==
  {xs \in DistinctSeqs(CrawledPages, MaxPages) \cup DistinctSeqs(ReloadedPages, MaxPages) :
     Len(xs) > 0}

\* Components as detectComponent names them; deduplicateComponents keeps one
\* per (type, name)
ComponentHeader == [name |-> "Header", type |-> "header"]
ComponentSidebar == [name |-> "Sidebar", type |-> "sidebar"]
ComponentVocabulary == {ComponentHeader, ComponentSidebar}
ComponentLists == DistinctSeqs(ComponentVocabulary, Cardinality(ComponentVocabulary))

\* Texts the service answers with for a page
\* A page text with a button, a useState call binding tasks, an add function
\* and a .map rendering call; what varies is whether the button has a click
\* handler, whether the text imports useNavigate, whether .map is called on
\* tasks directly or on a filtered list, the name of the add function, and
\* the button's label.
PageText(click, navigate, chained, addName, label) ==
  "import React, { useState } from 'react';\n"
  \o (IF navigate THEN "import { useNavigate } from 'react-router-dom';\n" ELSE "")
  \o "const [tasks, setTasks] = useState([]);\n"
  \o "const " \o addName \o " = () => {};\n"
  \o "<button" \o (IF click THEN " onClick={" \o addName \o "}" ELSE "") \o ">"
  \o label \o "</button>\n"
  \o (IF chained THEN "{tasks.filter(t => !t.done).map(t => t.title)}"
      ELSE "{tasks.map(t => t.title)}")
  \o "\nexport default Page;"

AddNames == {"addTask", "addItem"}
Labels == {"New", "New project"}
ClickedTexts ==
  {PageText(TRUE, navigate, chained, addName, label) :
     navigate \in BOOLEAN, chained \in BOOLEAN, addName \in AddNames, label \in Labels}
UnclickedTexts ==
  {PageText(FALSE, navigate, chained, addName, label) :
     navigate \in BOOLEAN, chained \in BOOLEAN, addName \in AddNames, label \in Labels}
ChecklistTexts == ClickedTexts \cup UnclickedTexts

\* The two texts the service answers with in a run
CodeFull == PageText(TRUE, FALSE, FALSE, "addTask", "New")
CodeNoClick == PageText(FALSE, FALSE, FALSE, "addTask", "New")
PageAnswers == {CodeFull, CodeNoClick}
PageOutcomes == {ServiceFailure} \cup {Answer(code) : code \in PageAnswers}

\* Texts the service answers with for a component
ComponentCode ==
  "import React from 'react';\nconst C = () => <button>Add</button>;\nexport default C;"
ComponentProse == "Here is the component you asked for."
ComponentAnswers == {ComponentCode, ComponentProse}
ComponentOutcomes == {ServiceFailure} \cup {Answer(code) : code \in ComponentAnswers}

\* Fixed texts of the generator (bodies shortened: no operation reads them)
FallbackSidebarCode == "import React from 'react';\nconst Sidebar: React.FC = () => {};\nexport default Sidebar;"
FallbackButtonCode == "import React from 'react';\nconst Button: React.FC<ButtonProps> = () => {};\nexport default Button;"
TaskDetailPageCode ==
  "import React, { useState } from 'react';\nimport { Header, Sidebar } from '../components';\n"
  \o "const TaskDetailPage: React.FC = () => {};\nexport default TaskDetailPage;"
SupportingFileNames ==
  {"package.json", "tsconfig.json", "tsconfig.node.json", "tailwind.config.js",
   "postcss.config.js", "index.html", "src/App.tsx", "src/main.tsx",
   "src/styles/global.css", "README.md", "vite.config.ts"}

\* --------------------------------------------------------------------------
\* The pure functions above, tabulated over the texts of the model (each
\* entry is the function's own value; the tables only spare recomputation)
\* --------------------------------------------------------------------------
AllPages == ChecklistPages \cup ReloadedPages \cup {PageProjectList}

FilenameOf == [p \in AllPages |-> getPageFilename(p.hasPath, p.path, p.title)]
PageFilenames == {FilenameOf[p] : p \in AllPages}
PromptThrowsFor == [p \in AllPages |-> BuildPagePromptThrows(p)]
FallbackPageFor ==
  [call \in {<<p, cs>> : p \in AllPages, cs \in ComponentLists} |->
     generateFallbackPage(call[1], call[2])]
FallbackComponentFor == [c \in ComponentVocabulary |-> generateFallbackComponent(c)]
FiveItemCheckOf == [code \in PageAnswers |-> PassesFiveItemCheck(code)]
HasImportOrExport ==
  [code \in ComponentAnswers |-> Includes(code, "import") \/ Includes(code, "export")]

\* every text generatePage can return
PageCodes == PageAnswers \cup {FallbackPageFor[call] : call \in DOMAIN FallbackPageFor}
IssuesOf ==
  [call \in {<<code, f>> : code \in PageCodes, f \in PageFilenames} |->
     validatePageFunctionality(call[1], call[2])]
\* every value previousIssues can take
IssueLists == {NoIssues} \cup {IssuesOf[call] : call \in DOMAIN IssuesOf}
PromptFor ==
  [call \in {<<p, cs, issues>> : p \in AllPages, cs \in ComponentLists, issues \in IssueLists} |->
     buildPagePrompt(call[1], call[2], call[3])]

\* Whether generatePage sends its second request
PageNeedsSecondRequest(first) == first.ok /\ ~FiveItemCheckOf[first.code]

\* generatePage(pageData, components, prompt, screenshotPath) with the
\* outcomes of its requests: the text returned, the requests sent, and whether
\* the catch block answered with the placeholder.
generatePage(pageData, comps, first, second) ==
  IF ~first.ok
    THEN [code |-> FallbackPageFor[<<pageData, comps>>], calls |-> 1, fallback |-> TRUE]
  ELSE IF FiveItemCheckOf[first.code]
    THEN [code |-> first.code, calls |-> 1, fallback |-> FALSE]
  ELSE IF ~second.ok
    THEN [code |-> FallbackPageFor[<<pageData, comps>>], calls |-> 2, fallback |-> TRUE]
  ELSE [code |-> second.code, calls |-> 2, fallback |-> FALSE]

\* Whether generateComponent sends its second request (the answer holds
\* neither "import" nor "export")
ComponentNeedsSecondRequest(first) == first.ok /\ ~HasImportOrExport[first.code]

generateComponent(component, first, second) ==
  IF ~first.ok
    THEN [code |-> FallbackComponentFor[component], calls |-> 1, fallback |-> TRUE]
  ELSE IF ~ComponentNeedsSecondRequest(first)
    THEN [code |-> first.code, calls |-> 1, fallback |-> FALSE]
  ELSE IF ~second.ok
    THEN [code |-> FallbackComponentFor[component], calls |-> 2, fallback |-> TRUE]
  ELSE [code |-> second.code, calls |-> 2, fallback |-> FALSE]

\* --------------------------------------------------------------------------
\* Directories: a map from file name to content
\* --------------------------------------------------------------------------
EmptyDir == [f \in {} |-> ""]
Exists(dir, file) == file \in DOMAIN dir
\* A variant of WriteFile that appends to a file that exists
AppendFile(dir, file, content) ==
  [f \in DOMAIN dir \cup {file} |->
     IF f = file THEN (IF f \in DOMAIN dir THEN dir[f] ELSE "") \o content ELSE dir[f]]

\* fs.writeFile(path, content): creates or replaces
WriteFile(dir, file, content) ==
  [f \in DOMAIN dir \cup {file} |-> IF f = file THEN content ELSE dir[f]]

\* fs.readdir(dir): the file names of a directory, in the order the file
\* system lists them; the same directory is always listed in the same order
ComponentFileOrder == <<"Button.tsx", "Card.tsx", "Header.tsx", "Sidebar.tsx", "index.ts">>
PageFileOrder ==
  <<"HomePage.tsx", "ProjectsPage.tsx", "SettingsPage.tsx", "TaskDetailPage.tsx",
    "TasksPage.tsx">>
OtherFileOrder == <<"README.md">>
DirectoryOrder == ComponentFileOrder \o PageFileOrder \o OtherFileOrder
Readdir(dir) == SelectSeq(DirectoryOrder, LAMBDA f : f \in DOMAIN dir)

\* --------------------------------------------------------------------------
\* Supporting files (generator.js, generateSupportingFiles)
\* --------------------------------------------------------------------------

\* The design tokens generateTailwindConfig reads, under the names it gives
\* them in the configuration, in the order it pushes them; an absent token
\* is the empty string
TokenKeys ==
  <<"bg-dark", "bg-dark-alt", "bg-light", "bg-light-alt", "text-primary",
    "text-secondary", "text-light", "accent-primary", "accent-secondary",
    "accent-tertiary", "accent-warning", "border-default">>
Tokens(present, values) ==
  [present |-> present,
   value |-> [key \in Range(TokenKeys) |-> IF key \in DOMAIN values THEN values[key] ELSE ""]]
\* designTokens = null
NoTokens == Tokens(FALSE, <<>>)
\* tokens were extracted, but none of the colours generateTailwindConfig reads
TokensWithoutColours == Tokens(TRUE, <<>>)
TokensDark == Tokens(TRUE, [key \in {"bg-dark", "accent-primary"} |->
                              IF key = "bg-dark" THEN "#1e1f21" ELSE "#f06a6a"])
TokensLight == Tokens(TRUE, [key \in {"bg-light", "text-primary", "border-default"} |->
                               IF key = "bg-light" THEN "#ffffff"
                               ELSE IF key = "text-primary" THEN "#1e1f21" ELSE "#edeae9"])
TokenChoices == {NoTokens, TokensWithoutColours, TokensDark, TokensLight}

DefaultColorConfig ==
  "        asana: {\n          orange: '#f06a6a',\n          blue: '#14aaf5',\n"
  \o "          purple: '#6568f7',\n          green: '#7bc86c',\n          pink: '#f283b6',\n        }"

\* the colours generateTailwindConfig pushes, one configuration line each
RECURSIVE ColorLines(_, _)
ColorLines(keys, tokens) ==
  IF Len(keys) = 0 THEN <<>>
  ELSE (IF tokens.value[keys[1]] # ""
          THEN <<"          '" \o keys[1] \o "': '" \o tokens.value[keys[1]] \o "'">>
          ELSE <<>>)
       \o ColorLines(Tail(keys), tokens)

\* generateTailwindConfig(designTokens): the text of tailwind.config.js
generateTailwindConfig(tokens) ==
  LET colors == IF tokens.present THEN ColorLines(TokenKeys, tokens) ELSE <<>>
      colorConfig == IF Len(colors) > 0
                       THEN "        app: {\n" \o Join(colors, ",\n") \o "\n        }"
                       ELSE DefaultColorConfig
  IN "/** @type {import('tailwindcss').Config} */\nexport default {\n  content: [\n"
     \o "    \"./index.html\",\n    \"./src/**/*.{js,ts,jsx,tsx}\",\n  ],\n"
     \o "  theme: {\n    extend: {\n      colors: {\n" \o colorConfig
     \o "\n      }\n    },\n  },\n  plugins: [],\n}"

\* A variant of routePath without the rule for project pages
routePathWithoutProjects(name) ==
  IF Includes(name, "Tasks") /\ ~Includes(name, "Detail") THEN "/tasks"
  ELSE "/"

\* generateAppTsx: let routePath
routePath(name) ==
  IF Includes(name, "Projects") THEN "/projects"
  ELSE IF Includes(name, "Tasks") /\ ~Includes(name, "Detail") THEN "/tasks"
  ELSE IF name = "HomePage" THEN "/"
  ELSE "/"

\* one line of the route table
RouteLine(path, name) ==
  "        <Route path=\"" \o path \o "\" element={<" \o name \o " />} />"

ImportLine(name) == "import " \o name \o " from './pages/" \o name \o "';"

\* generateAppTsx(): the text of src/App.tsx for the pages directory
generateAppTsx(dir) ==
  LET pages == SelectSeq(Readdir(dir), LAMBDA f : EndsWith(f, ".tsx"))
      imports == Join([k \in DOMAIN pages |-> ImportLine(Basename(pages[k]))], "\n")
      routes == Join([k \in DOMAIN pages |->
                        RouteLine(routePath(Basename(pages[k])), Basename(pages[k]))], "\n")
      hasTaskDetailPage == \E k \in DOMAIN pages : Includes(pages[k], "TaskDetail")
      taskDetailRoute == IF hasTaskDetailPage
                           THEN RouteLine("/tasks/:id", "TaskDetailPage") ELSE ""
  IN "import React from 'react';\n"
     \o "import { BrowserRouter as Router, Routes, Route } from 'react-router-dom';\n"
     \o imports \o "\nimport './styles/global.css';\n\n"
     \o "const App: React.FC = () => {\n  return (\n    <Router>\n      <Routes>\n"
     \o routes \o "\n" \o taskDetailRoute
     \o "\n      </Routes>\n    </Router>\n  );\n};\n\nexport default App;"

\* The files generateSupportingFiles writes, in the order it writes them
SupportingFileOrder ==
  <<"package.json", "tsconfig.json", "tsconfig.node.json", "tailwind.config.js",
    "postcss.config.js", "index.html", "src/App.tsx", "src/main.tsx",
    "src/styles/global.css", "README.md", "vite.config.ts">>

\* The text each writer produces; the writers other than generateTailwindConfig
\* and generateAppTsx write a fixed text (shortened: no operation reads it)
SupportingFileText(file, dir, tokens) ==
  IF file = "tailwind.config.js" THEN generateTailwindConfig(tokens)
  ELSE IF file = "src/App.tsx" THEN generateAppTsx(dir)
  ELSE "// " \o file

\* fs.writeFile(filepath, text, 'utf-8') of every writer, one after the other
RECURSIVE WriteSupportingFiles(_, _, _)
WriteSupportingFiles(files, order, texts) ==
  IF Len(order) = 0 THEN files
  ELSE WriteSupportingFiles(WriteFile(files, order[1], texts[order[1]]), Tail(order), texts)

\* generateSupportingFiles(designTokens): the project files after it
generateSupportingFiles(files, dir, tokens) ==
  WriteSupportingFiles(files, SupportingFileOrder,
                       [file \in SupportingFileNames |-> SupportingFileText(file, dir, tokens)])

\* main: validateEnvironment's required keys, and the exit code of a process
\* that has not exited
REQUIRED_KEYS == {"OPENAI_API_KEY", "TARGET_URL"}
Running == -1

\* --------------------------------------------------------------------------
\* Extraction (extractor.js)
\* --------------------------------------------------------------------------

\* A node of the page structure as extractPageStructure records it: tag, id
\* (the empty string for none) and classes
Node(tag, id, classes) == [tag |-> tag, id |-> id, classes |-> classes]
\* pageData.structure is missing
NoNode == Node("", "", <<>>)

\* const classStr = classes.join(' ').toLowerCase()
ClassStr(node) == ToLowerCase(Join(node.classes, " "))

\* The rules of detectComponent in the order of its if statements: the type
\* each gives, the tags it accepts and the substrings of classStr it accepts
RuleOrder == <<"header", "sidebar", "main", "card", "list", "button", "form", "modal">>
RuleName ==
  [type \in Range(RuleOrder) |->
     CASE type = "header" -> "Header"
       [] type = "sidebar" -> "Sidebar"
       [] type = "main" -> "MainContent"
       [] type = "card" -> "Card"
       [] type = "list" -> "List"
       [] type = "button" -> "Button"
       [] type = "form" -> "Form"
       [] type = "modal" -> "Modal"]
RuleTags ==
  [type \in Range(RuleOrder) |->
     CASE type = "header" -> {"header"}
       [] type = "sidebar" -> {"aside"}
       [] type = "main" -> {"main"}
       [] type = "card" -> {}
       [] type = "list" -> {"ul", "ol"}
       [] type = "button" -> {"button"}
       [] type = "form" -> {"form"}
       [] type = "modal" -> {}]
RuleClasses ==
  [type \in Range(RuleOrder) |->
     CASE type = "header" -> {"header", "topbar"}
       [] type = "sidebar" -> {"sidebar", "nav"}
       [] type = "main" -> {"main-content", "content-area"}
       [] type = "card" -> {"card", "task-", "project-"}
       [] type = "list" -> {"list"}
       [] type = "button" -> {"button", "btn"}
       [] type = "form" -> {"form", "input-group"}
       [] type = "modal" -> {"modal", "dialog", "popup"}]

\* the condition of the if statement of a rule
RuleMatches(type, node) ==
  \/ node.tag \in RuleTags[type]
  \/ \E sub \in RuleClasses[type] : Includes(ClassStr(node), sub)

\* the object a rule returns: selector is '#' + id, or '.' + the first class,
\* or '.' + the rule's type when the node has neither
Candidate(type, node) ==
  [name |-> RuleName[type], type |-> type,
   selector |-> IF node.id # "" THEN "#" \o node.id
                ELSE "." \o (IF Len(node.classes) > 0 /\ node.classes[1] # ""
                               THEN node.classes[1] ELSE type)]

\* detectComponent returns null
NoCandidate == [name |-> "", type |-> "", selector |-> ""]

\* A variant of detectComponent that tests for a sidebar before a header
detectSidebarFirst(node) ==
  IF RuleMatches("sidebar", node) THEN Candidate("sidebar", node)
  ELSE IF RuleMatches("header", node) THEN Candidate("header", node)
  ELSE IF RuleMatches("main", node) THEN Candidate("main", node)
  ELSE IF RuleMatches("card", node) THEN Candidate("card", node)
  ELSE IF RuleMatches("list", node) THEN Candidate("list", node)
  ELSE IF RuleMatches("button", node) THEN Candidate("button", node)
  ELSE IF RuleMatches("form", node) THEN Candidate("form", node)
  ELSE IF RuleMatches("modal", node) THEN Candidate("modal", node)
  ELSE NoCandidate

\* detectComponent(node, path)
detectComponent(node) ==
  IF node = NoNode THEN NoCandidate
  ELSE IF RuleMatches("header", node) THEN Candidate("header", node)
  ELSE IF RuleMatches("sidebar", node) THEN Candidate("sidebar", node)
  ELSE IF RuleMatches("main", node) THEN Candidate("main", node)
  ELSE IF RuleMatches("card", node) THEN Candidate("card", node)
  ELSE IF RuleMatches("list", node) THEN Candidate("list", node)
  ELSE IF RuleMatches("button", node) THEN Candidate("button", node)
  ELSE IF RuleMatches("form", node) THEN Candidate("form", node)
  ELSE IF RuleMatches("modal", node) THEN Candidate("modal", node)
  ELSE NoCandidate

\* identifyLayoutComponents(structure, pageData) for a structure without
\* children: traverse pushes the component detectComponent returns, if any
identifyLayoutComponents(node) ==
  LET component == detectComponent(node)
  IN IF component # NoCandidate THEN <<component>> ELSE <<>>

\* The nodes detectComponent is tried on
NodeTags == {"div", "span", "header", "aside", "main", "ul", "button", "form"}
NodeIds == {"", "root"}
NodeClasses ==
  {<<>>, <<"app-header">>, <<"SideNav">>, <<"task-list">>, <<"form-btn">>,
   <<"content">>, <<"dialog">>, <<"layout", "main-content", "card">>}
Nodes == {Node(tag, id, classes) : tag \in NodeTags, id \in NodeIds, classes \in NodeClasses}

\* A component as analyzePageStructure hands it to deduplicateComponents:
\* what detectComponent returned, with the URL of the page it was found on;
\* pages = <<>> stands for a component without the pages field
PageComponent(component, pageUrl) ==
  [name |-> component.name, type |-> component.type, selector |-> component.selector,
   pageUrl |-> pageUrl, pages |-> <<>>]

\* const key = type + '-' + name
ComponentKey(comp) == comp.type \o "-" \o comp.name

\* the index in unique of the entry uniqueMap holds under a key, 0 for none
IndexOfKey(unique, key) ==
  IF \E k \in DOMAIN unique : ComponentKey(unique[k]) = key
    THEN CHOOSE k \in DOMAIN unique : ComponentKey(unique[k]) = key
    ELSE 0

\* A variant of MergePage that keeps the page of the first candidate only
MergeKeepsFirstPage(existing, pageUrl) ==
  [existing EXCEPT !.pages = <<existing.pageUrl>>]

\* the else branch of deduplicateComponents: the page of a duplicate is
\* merged into the pages of the entry kept
MergePage(existing, pageUrl) ==
  LET pages == IF Len(existing.pages) = 0 THEN <<existing.pageUrl>> ELSE existing.pages
  IN [existing EXCEPT !.pages = IF ArrayIncludes(pages, pageUrl) THEN pages
                                 ELSE Append(pages, pageUrl)]

\* components.forEach(...) of deduplicateComponents: unique holds the values
\* of uniqueMap in insertion order
RECURSIVE DeduplicateInto(_, _)
DeduplicateInto(unique, comps) ==
  IF Len(comps) = 0 THEN unique
  ELSE LET comp == comps[1]
           k == IndexOfKey(unique, ComponentKey(comp))
       IN DeduplicateInto(IF k = 0 THEN Append(unique, comp)
                          ELSE [unique EXCEPT ![k] = MergePage(unique[k], comp.pageUrl)],
                          Tail(comps))

\* deduplicateComponents(components)
deduplicateComponents(comps) == DeduplicateInto(<<>>, comps)

\* The pages the candidates come from, in crawl order, and the candidates
\* extractComponents collects from them: page after page
PageUrls ==
  <<"https://app.asana.com/0/1/home", "https://app.asana.com/0/project/2/list/3",
    "https://app.asana.com/0/project/4/list/5">>
CandidateNodes ==
  {Node("header", "", <<>>), Node("aside", "", <<"SideNav">>), Node("div", "nav", <<"topbar">>)}
PageOf(comp) == CHOOSE k \in DOMAIN PageUrls : PageUrls[k] = comp.pageUrl
CandidateLists ==
  {comps \in UNION {[1..n -> {PageComponent(detectComponent(node), PageUrls[k]) :
                                node \in CandidateNodes, k \in DOMAIN PageUrls}] :
                      n \in 0..MaxCandidates} :
     \A i, j \in DOMAIN comps : i <= j => PageOf(comps[i]) <= PageOf(comps[j])}

\* --------------------------------------------------------------------------
\* Validate-only mode: the checklists of the two validation scripts (the
\* marks that open the printed issue lines are left out of the strings)
\* --------------------------------------------------------------------------
VIssueInlineSidebar == "Has inline sidebar div instead of <Sidebar /> component"
VIssueInlineHeader == "Has inline <header> instead of <Header /> component"
VIssueMissingImports == "Missing imports from ../components"
VIssueSidebarUnused == "Imports Sidebar but doesn't use it"
VIssueHeaderUnused == "Imports Header but doesn't use it"
VIssueButtons == "Has buttons but missing onClick handlers"
VIssueCheckboxes == "Has checkboxes but missing onChange handlers"
VIssueInputs == "Has input fields but missing onChange handlers"
VIssueAdd == "Has \"Add\" button but missing add function"
VIssueDelete == "Has \"Delete\" button but missing delete function"
VIssueToggle == "Has checkboxes but missing toggle function"

\* n occurs in s at position i
OccursAt(s, n, i) == i >= 1 /\ i + Len(n) - 1 <= Len(s) /\ SubSeq(s, i, i + Len(n) - 1) = n

\* no character of s from position i to position j is c
NoneBetween(s, i, j, c) == \A k \in i..j : CharAt(s, k) # c

\* content.match(/<header[^>]*className=/)
HasInlineHeader(content) ==
  \E i \in 1..Len(content) :
    /\ OccursAt(content, "<header", i)
    /\ \E j \in (i + 7)..Len(content) :
         /\ OccursAt(content, "className=", j)
         /\ NoneBetween(content, i + 7, j - 1, ">")

\* content.match(/<div[^>]*className="w-60[^"]*bg-\[rgb\(46,46,48\)\][^>]*>/)
HasInlineSidebar(content) ==
  \E i \in 1..Len(content) :
    /\ OccursAt(content, "<div", i)
    /\ \E j \in (i + 4)..Len(content) :
         /\ OccursAt(content, "className=\"w-60", j)
         /\ NoneBetween(content, i + 4, j - 1, ">")
         /\ \E k \in (j + 15)..Len(content) :
              /\ OccursAt(content, "bg-[rgb(46,46,48)]", k)
              /\ NoneBetween(content, j + 15, k - 1, "\"")
              /\ \E m \in (k + 18)..Len(content) : CharAt(content, m) = ">"

\* validate-pages.js: the issues about the Sidebar and Header components
componentIssues(content) ==
  LET hasImport == Includes(content, "from '../components'")
                   \/ Includes(content, "from \"../components\"")
      importsSidebar == Includes(content, "Sidebar")
      importsHeader == Includes(content, "Header")
      hasInlineSidebar == HasInlineSidebar(content)
      hasInlineHeader == HasInlineHeader(content)
      usesSidebarComponent == Includes(content, "<Sidebar")
      usesHeaderComponent == Includes(content, "<Header")
  IN PushIf(hasInlineSidebar, VIssueInlineSidebar)
     \o PushIf(hasInlineHeader, VIssueInlineHeader)
     \o PushIf(~hasImport /\ (hasInlineSidebar \/ hasInlineHeader), VIssueMissingImports)
     \o PushIf(hasImport /\ importsSidebar /\ ~usesSidebarComponent, VIssueSidebarUnused)
     \o PushIf(hasImport /\ importsHeader /\ ~usesHeaderComponent, VIssueHeaderUnused)

\* content.match(/Add|Create|Delete|Remove|Update|Edit/i)
MatchCRUDLabel(content) ==
  \/ MatchAddCreate(content)
  \/ MatchDeleteRemove(content)
  \/ MatchesIgnoreCase(content, "update")
  \/ MatchEdit(content)

\* the other validation script: the same issues, then those about handlers
\* and CRUD functions
crudIssues(content) ==
  LET hasButtons == Includes(content, "<button")
      hasCheckboxes == Includes(content, "type=\"checkbox\"")
      hasInputs == Includes(content, "<input") /\ Includes(content, "type=\"text\"")
      hasAddFunction == \/ Includes(content, "addTask")
                        \/ Includes(content, "addItem")
                        \/ Includes(content, "onCreate")
      hasDeleteFunction == \/ Includes(content, "deleteTask")
                           \/ Includes(content, "deleteItem")
                           \/ Includes(content, "onDelete")
      hasToggleFunction == \/ Includes(content, "toggleTask")
                           \/ Includes(content, "toggleItem")
                           \/ Includes(content, "onToggle")
  IN PushIf(hasButtons /\ ~Includes(content, "onClick"), VIssueButtons)
     \o PushIf(hasCheckboxes /\ ~Includes(content, "onChange"), VIssueCheckboxes)
     \o PushIf(hasInputs /\ ~Includes(content, "onChange"), VIssueInputs)
     \o (IF MatchCRUDLabel(content)
           THEN PushIf(~hasAddFunction /\ MatchAddCreate(content), VIssueAdd)
                \o PushIf(~hasDeleteFunction /\ MatchDeleteRemove(content), VIssueDelete)
                \o PushIf(hasCheckboxes /\ ~hasToggleFunction, VIssueToggle)
           ELSE <<>>)

ScriptComponents == "validate-pages.js"
ScriptCrud == "validate-pages.js with the CRUD checks"
Scripts == {ScriptComponents, ScriptCrud}

\* const issues of validatePages, for the script that runs
validatePagesIssues(which, content) ==
  IF which = ScriptComponents THEN componentIssues(content)
  ELSE componentIssues(content) \o crudIssues(content)

\* files.filter(f => f.endsWith('.tsx') || f.endsWith('.ts'))
IsPageFile(f) == EndsWith(f, ".tsx") \/ EndsWith(f, ".ts")

\* --------------------------------------------------------------------------
\* The CSS parser (css-parser.js). A stylesheet is the sequence of its
\* declarations "property: value;", and a color is the text of the value.
\* --------------------------------------------------------------------------
HexDigits == "0123456789abcdef"
NaN == -1

\* String(n) for n >= 0, and n in two hexadecimal digits
RECURSIVE ToDecimal(_)
ToDecimal(n) ==
  IF n < 10 THEN CharAt(Digits, n + 1)
  ELSE ToDecimal(n \div 10) \o CharAt(Digits, (n % 10) + 1)
ToHex2(n) == CharAt(HexDigits, (n \div 16) + 1) \o CharAt(HexDigits, (n % 16) + 1)

\* the value of the digit c in base 16, NaN for any other character
HexValue(c) ==
  IF \E k \in 1..16 : CharAt(HexDigits, k) = LowerChar(c)
    THEN (CHOOSE k \in 1..16 : CharAt(HexDigits, k) = LowerChar(c)) - 1
    ELSE NaN

\* the position after the longest run of decimal digits of s that starts at i
RECURSIVE DigitsEnd(_, _)
DigitsEnd(s, i) ==
  IF i <= Len(s) /\ IsDigit(CharAt(s, i)) THEN DigitsEnd(s, i + 1) ELSE i

\* the position after the white space of s that starts at i (\s*)
RECURSIVE SkipSpaces(_, _)
SkipSpaces(s, i) ==
  IF i <= Len(s) /\ IsSpace(CharAt(s, i)) THEN SkipSpaces(s, i + 1) ELSE i

\* Number(digits)
RECURSIVE ParseDecimal(_)
ParseDecimal(digits) ==
  IF digits = "" THEN 0
  ELSE 10 * ParseDecimal(SubSeq(digits, 1, Len(digits) - 1))
       + HexValue(CharAt(digits, Len(digits)))

\* parseInt(text, 16): the leading hexadecimal digits, NaN when there is none
RECURSIVE ParseHexRun(_, _)
ParseHexRun(text, acc) ==
  IF text = "" \/ HexValue(CharAt(text, 1)) = NaN THEN acc
  ELSE ParseHexRun(SubSeq(text, 2, Len(text)), 16 * acc + HexValue(CharAt(text, 1)))

ParseIntHex(text) ==
  IF text = "" \/ HexValue(CharAt(text, 1)) = NaN THEN NaN ELSE ParseHexRun(text, 0)

\* hex.substr(from, 2), from counted from 0
Substr2(hex, from) ==
  SubSeq(hex, from + 1, IF from + 2 <= Len(hex) THEN from + 2 ELSE Len(hex))

NoMatch == [matched |-> FALSE, r |-> 0, g |-> 0, b |-> 0]

\* /rgba?\((\d+),\s*(\d+),\s*(\d+)/ tried with the opening parenthesis at
\* position - 1; each group is scanned once, from the end of the one before
RgbGroups(color, open, rEnd, gStart, gEnd, bStart, bEnd) ==
  IF /\ rEnd > open /\ CharAt(color, rEnd) = ","
     /\ gEnd > gStart /\ CharAt(color, gEnd) = ","
     /\ bEnd > bStart
    THEN [matched |-> TRUE,
          r |-> ParseDecimal(SubSeq(color, open, rEnd - 1)),
          g |-> ParseDecimal(SubSeq(color, gStart, gEnd - 1)),
          b |-> ParseDecimal(SubSeq(color, bStart, bEnd - 1))]
    ELSE NoMatch
RgbBlueDigits(color, open, rEnd, gStart, gEnd, bStart) ==
  RgbGroups(color, open, rEnd, gStart, gEnd, bStart, DigitsEnd(color, bStart))
RgbBlueSpaces(color, open, rEnd, gStart, gEnd) ==
  RgbBlueDigits(color, open, rEnd, gStart, gEnd, SkipSpaces(color, gEnd + 1))
RgbGreenDigits(color, open, rEnd, gStart) ==
  RgbBlueSpaces(color, open, rEnd, gStart, DigitsEnd(color, gStart))
RgbGreenSpaces(color, open, rEnd) ==
  RgbGreenDigits(color, open, rEnd, SkipSpaces(color, rEnd + 1))
RgbGroupsAt(color, open) == RgbGreenSpaces(color, open, DigitsEnd(color, open))

\* color.match(/rgba?\((\d+),\s*(\d+),\s*(\d+)/): the leftmost match
RgbMatchAt(color, i) ==
  IF OccursAt(color, "rgb(", i) THEN RgbGroupsAt(color, i + 4)
  ELSE IF OccursAt(color, "rgba(", i) THEN RgbGroupsAt(color, i + 5)
  ELSE NoMatch
RgbLeftmost(color, starts) ==
  IF starts = {} THEN NoMatch
  ELSE RgbMatchAt(color, CHOOSE i \in starts : \A j \in starts : i <= j)
RgbMatch(color) ==
  RgbLeftmost(color, {i \in 1..Len(color) : RgbMatchAt(color, i).matched})

\* A variant of the comparison that counts brightness 128 as dark
BrightnessAtMost128(r, g, b) ==
  /\ NaN \notin {r, g, b}
  /\ r * 299 + g * 587 + b * 114 <= 128 * 1000

\* brightness < 128 with brightness = (r * 299 + g * 587 + b * 114) / 1000;
\* a comparison with NaN is false
BrightnessBelow128(r, g, b) ==
  /\ NaN \notin {r, g, b}
  /\ r * 299 + g * 587 + b * 114 < 128 * 1000

\* isDarkColor with rgbMatch the result of color.match and hex the text
\* of color.replace('#', '')
isDarkOf(color, rgbMatch, hex) ==
  IF rgbMatch.matched THEN BrightnessBelow128(rgbMatch.r, rgbMatch.g, rgbMatch.b)
  ELSE IF Len(color) > 0 /\ CharAt(color, 1) = "#"
    THEN BrightnessBelow128(ParseIntHex(Substr2(hex, 0)),
                            ParseIntHex(Substr2(hex, 2)),
                            ParseIntHex(Substr2(hex, 4)))
  ELSE FALSE

isDarkColor(color) == isDarkOf(color, RgbMatch(color), SubSeq(color, 2, Len(color)))

\* how often c occurs in colors
Occurrences(colors, c) == Cardinality({k \in DOMAIN colors : colors[k] = c})

\* A variant of getMostFrequent that returns the last color of the array
getLast(colors) == colors[Len(colors)]

\* getMostFrequent(colors), colors not empty: the entries of frequency are
\* in the order the colors first occur, and the sort keeps that order among
\* equal counts
getMostFrequent(colors) ==
  LET best == CHOOSE k \in DOMAIN colors :
                /\ \A j \in DOMAIN colors :
                     Occurrences(colors, colors[j]) <= Occurrences(colors, colors[k])
                /\ \A j \in 1..(k - 1) :
                     Occurrences(colors, colors[j]) < Occurrences(colors, colors[k])
  IN colors[best]

\* set.add(x) on a Set kept in insertion order
SetAdd(set, x) == IF ArrayIncludes(set, x) THEN set ELSE Append(set, x)

RECURSIVE SetAddAll(_, _)
SetAddAll(set, xs) ==
  IF Len(xs) = 0 THEN set ELSE SetAddAll(SetAdd(set, xs[1]), Tail(xs))

Declaration(property, value) == [property |-> property, value |-> value]

BorderProperties ==
  {"border-color", "border-top-color", "border-right-color", "border-bottom-color",
   "border-left-color"}

\* the colors the regular expression of a property captures from css, in
\* the order of the text, without those extractStyles leaves out
CapturedColors(css, properties) ==
  LET kept == SelectSeq(css, LAMBDA d :
                /\ d.property \in properties
                /\ d.value # "rgba(0, 0, 0, 0)"
                /\ ~Includes(d.value, "inherit"))
  IN [k \in DOMAIN kept |-> kept[k].value]

\* the colors the catch-all regular expression captures
AllCapturedColors(css) ==
  LET kept == SelectSeq(css, LAMBDA d : d.value \notin {"rgba(0, 0, 0, 0)", "#000", "#fff"})
  IN [k \in DOMAIN kept |-> kept[k].value]

EmptyStyleData ==
  [colors |-> <<>>, backgroundColors |-> <<>>, textColors |-> <<>>, borderColors |-> <<>>]

\* extractStyles(css, styleData), for the four sets of colors
extractStyles(css, data) ==
  LET bg == CapturedColors(css, {"background-color"})
      text == CapturedColors(css, {"color"})
      border == CapturedColors(css, BorderProperties)
  IN [backgroundColors |-> SetAddAll(data.backgroundColors, bg),
      textColors |-> SetAddAll(data.textColors, text),
      borderColors |-> SetAddAll(data.borderColors, border),
      colors |-> SetAddAll(data.colors, bg \o text \o border \o AllCapturedColors(css))]

NoBuckets == [darkBgs |-> <<>>, lightBgs |-> <<>>, darkText |-> <<>>, lightText |-> <<>>]
EmptyTokens == [key \in {} |-> ""]

\* tokens.group.name = value
SetToken(map, key, value) ==
  [k \in DOMAIN map \cup {key} |-> IF k = key THEN value ELSE map[k]]

\* list[1] || list[0]
SecondOrFirst(list) == IF Len(list) >= 2 THEN list[2] ELSE list[1]

\* categorizeColors, "Analyze background colors": the two buckets and the
\* tokens set from them
darkBackgroundTokens(map, darkBgs) ==
  IF Len(darkBgs) > 0
    THEN SetToken(SetToken(map, "backgrounds.dark", getMostFrequent(darkBgs)),
                  "backgrounds.dark-alt", SecondOrFirst(darkBgs))
    ELSE map
lightBackgroundTokens(map, lightBgs) ==
  IF Len(lightBgs) > 0
    THEN SetToken(SetToken(map, "backgrounds.light", getMostFrequent(lightBgs)),
                  "backgrounds.light-alt", SecondOrFirst(lightBgs))
    ELSE map
bucketsAndTokens(darkBucket, lightBucket, map) ==
  [dark |-> darkBucket, light |-> lightBucket, tokens |-> map]
backgroundBuckets(darkBgs, lightBgs, map) ==
  bucketsAndTokens(darkBgs, lightBgs,
                   lightBackgroundTokens(darkBackgroundTokens(map, darkBgs), lightBgs))
backgroundTokens(data, map) ==
  backgroundBuckets(SelectSeq(data.backgroundColors, isDarkColor),
                    SelectSeq(data.backgroundColors, LAMBDA c : ~isDarkColor(c)), map)

\* categorizeColors, "Analyze text colors"
darkTextTokens(map, darkText) ==
  IF Len(darkText) > 0
    THEN SetToken(SetToken(map, "text.primary", getMostFrequent(darkText)),
                  "text.secondary", SecondOrFirst(darkText))
    ELSE map
lightTextTokens(map, lightText) ==
  IF Len(lightText) > 0 THEN SetToken(map, "text.light", getMostFrequent(lightText))
  ELSE map
textBuckets(darkText, lightText, map) ==
  bucketsAndTokens(darkText, lightText,
                   lightTextTokens(darkTextTokens(map, darkText), lightText))
textTokens(data, map) ==
  textBuckets(SelectSeq(data.textColors, isDarkColor),
              SelectSeq(data.textColors, LAMBDA c : ~isDarkColor(c)), map)

\* categorizeColors, "Border colors"
borderTokens(data, map) ==
  IF Len(data.borderColors) > 0
    THEN SetToken(map, "borders.default", getMostFrequent(data.borderColors))
    ELSE map

\* what parseCSSFiles returns: null, or the arrays and the design tokens
NotParsed ==
  [status |-> "pending", colors |-> <<>>, backgroundColors |-> <<>>,
   textColors |-> <<>>, borderColors |-> <<>>, designTokens |-> EmptyTokens]
Null ==
  [status |-> "null", colors |-> <<>>, backgroundColors |-> <<>>,
   textColors |-> <<>>, borderColors |-> <<>>, designTokens |-> EmptyTokens]
Parsed(data, tokenMap) ==
  [status |-> "value", colors |-> data.colors,
   backgroundColors |-> data.backgroundColors, textColors |-> data.textColors,
   borderColors |-> data.borderColors, designTokens |-> tokenMap]

\* --------------------------------------------------------------------------
\* The output directory: what crawlPage writes for the page at an index of
\* the crawl list, and output/extraction-results.json
\* --------------------------------------------------------------------------
HtmlPath(index) == "html/page-" \o ToDecimal(index) \o ".html"
CssPath(index) == "css/page-" \o ToDecimal(index) \o ".json"
CssDir(index) == "css/page-" \o ToDecimal(index)

\* crawlPage(page, pagePath, index): the files written for a page that
\* loaded; each file is represented by the page it was captured from, and
\* the directory of stylesheets is made if a stylesheet was captured
WriteCapture(files, index, pageData, hasStylesheets) ==
  LET withHtml == WriteFile(files, HtmlPath(index), pageData)
      withStyles == WriteFile(withHtml, CssPath(index), pageData)
  IN IF hasStylesheets THEN WriteFile(withStyles, CssDir(index), pageData)
     ELSE withStyles

\* extraction-results.json: missing, or saved with the pages
NotSaved == [saved |-> FALSE, pages |-> <<>>]
Saved(pages) == [saved |-> TRUE, pages |-> pages]

\* --------------------------------------------------------------------------
\* State
\* --------------------------------------------------------------------------
VARIABLES
  crawlData,        \* generateReactApp's argument: the pages
  components,       \* generateReactApp's argument: the extracted components
  pc,               \* where generateReactApp is
  ci,               \* generateComponents: index of the next component
  pi,               \* generatePages: index of the current page
  filename,         \* generatePages: file name of the current page
  retries,          \* generatePages: let retries
  success,          \* generatePages: let success
  previousIssues,   \* generatePages: let previousIssues
  hasTasksPage,     \* generatePages: let hasTasksPage
  componentsDir,    \* generated-app/src/components
  pagesDir,         \* generated-app/src/pages
  barrel,           \* generateComponentIndex: the names it exports, in order
  supportingFiles,  \* manifest, configs, App.tsx, ... written so far
  attemptLog,       \* history: the attempts made for the current page
  componentLog,     \* history: what generateComponent did for the component just written
  designTokens,     \* generateReactApp: const designTokens
  structure,        \* identifyLayoutComponents: the node traverse is called on
  layoutComponents, \* identifyLayoutComponents: const components
  allComponents,    \* extractComponents: const allComponents
  uniqueComponents, \* extractComponents: const uniqueComponents
  env,              \* main: the keys process.env holds
  pagesToCrawl,     \* crawlPages: const pages, with what crawlPage meets on each
  crawlIndex,       \* crawlPages: let i (from 1)
  results,          \* crawlPages: const results
  exitCode,         \* main: the code the process exited with, -1 while it runs
  error,            \* main: the message of the error thrown, "" for none
  script,           \* validate-only: which of the two validation scripts runs
  pageFiles,        \* validatePages: const pageFiles
  fileIndex,        \* validatePages: position of the for-of loop in pageFiles
  passCount,        \* validatePages: let passCount
  failCount,        \* validatePages: let failCount
  report,           \* validatePages: the lines printed, one per file
  items,            \* batchGenerate: items, each with how generateFn settles on it
  batchSize,        \* batchGenerate: batchSize
  batchStart,       \* batchGenerate: let i (from 0)
  requestState,     \* batchGenerate: the promise generateFn returned for each item
  batchResults,     \* batchGenerate: const results (the items whose results it holds)
  sleeps,           \* batchGenerate: the values of i at which the delay was awaited
  cssDirectory,     \* parseCSSFiles: the .css files of cssDirectory, in readdir order
  cssFileIndex,     \* parseCSSFiles: position of the for-of loop in cssFiles
  styleData,        \* parseCSSFiles: const styleData (sets in insertion order)
  buckets,          \* categorizeColors: darkBgs, lightBgs, darkText, lightText
  cssTokens,        \* categorizeColors: const tokens
  parsedCSS,        \* what parseCSSFiles returned
  outputFiles,      \* output/html/page-N.html with output/css/page-N.json and output/css/page-N
  extractionResults,\* output/extraction-results.json: pages
  loadIndex,        \* regenerate-only main: let i (from 0)
  regenerated,      \* regenerate-only main: const crawlData
  responses,        \* crawlPage: the response handlers of the page's stylesheets
  capturedCss       \* crawlPage: capturedResources.css

extractVars == <<structure, layoutComponents, allComponents, uniqueComponents>>
crawlVars == <<env, pagesToCrawl, crawlIndex, results, exitCode, error>>

validateVars == <<script, pageFiles, fileIndex, passCount, failCount, report>>
batchVars == <<items, batchSize, batchStart, requestState, batchResults, sleeps>>
cssVars == <<cssDirectory, cssFileIndex, styleData, buckets, cssTokens, parsedCSS>>
regenerateVars == <<outputFiles, extractionResults, loadIndex, regenerated>>
captureVars == <<responses, capturedCss>>
toolVars == <<validateVars, batchVars, cssVars, regenerateVars, captureVars>>

vars == <<crawlData, components, pc, ci, pi, filename, retries, success,
          previousIssues, hasTasksPage, componentsDir, pagesDir, barrel,
          supportingFiles, attemptLog, componentLog, designTokens,
          extractVars, crawlVars, toolVars>>

\* The extraction has not been asked for anything
ExtractIdle ==
  /\ structure = NoNode
  /\ layoutComponents = <<>>
  /\ allComponents = <<>>
  /\ uniqueComponents = <<>>

\* The crawl is over: main has validated the environment and holds the pages
CrawlIdle ==
  /\ env = REQUIRED_KEYS
  /\ pagesToCrawl = <<>>
  /\ crawlIndex = 1
  /\ results = <<>>
  /\ exitCode = Running
  /\ error = ""

\* The validation script has not been started
ValidateIdle ==
  /\ script = ""
  /\ pageFiles = <<>>
  /\ fileIndex = 1
  /\ passCount = 0
  /\ failCount = 0
  /\ report = <<>>

\* batchGenerate has not been called
BatchIdle ==
  /\ items = <<>>
  /\ batchSize = 1
  /\ batchStart = 0
  /\ requestState = <<>>
  /\ batchResults = <<>>
  /\ sleeps = <<>>

\* parseCSSFiles has not been called
CssIdle ==
  /\ cssDirectory = <<>>
  /\ cssFileIndex = 1
  /\ styleData = EmptyStyleData
  /\ buckets = NoBuckets
  /\ cssTokens = EmptyTokens
  /\ parsedCSS = NotParsed

\* Nothing is in the output directory and regenerate-only has not been started
RegenerateIdle ==
  /\ outputFiles = EmptyDir
  /\ extractionResults = NotSaved
  /\ loadIndex = 0
  /\ regenerated = <<>>

\* No page is being loaded
CaptureIdle ==
  /\ responses = <<>>
  /\ capturedCss = <<>>

ToolIdle ==
  /\ ValidateIdle
  /\ BatchIdle
  /\ CssIdle
  /\ RegenerateIdle
  /\ CaptureIdle

NoComponentLog == [name |-> "", code |-> "", calls |-> 0, fallback |-> FALSE]

Init ==
  /\ crawlData \in CrawlLists
  /\ components \in ComponentLists
  /\ pc = "setup"
  /\ ci = 1
  /\ pi = 1
  /\ filename = ""
  /\ retries = 0
  /\ success = FALSE
  /\ previousIssues = NoIssues
  /\ hasTasksPage = FALSE
  /\ componentsDir = EmptyDir
  /\ pagesDir = EmptyDir
  /\ barrel = <<>>
  /\ supportingFiles = EmptyDir
  /\ attemptLog = <<>>
  /\ componentLog = NoComponentLog
  /\ designTokens = NoTokens
  /\ ExtractIdle
  /\ CrawlIdle
  /\ ToolIdle

\* --------------------------------------------------------------------------
\* generateReactApp, step by step
\* --------------------------------------------------------------------------

\* setupAppStructure: ensureDir of every directory; existing files stay
SetupAppStructure ==
  /\ pc = "setup"
  /\ pc' = "base"
  /\ UNCHANGED <<designTokens, extractVars, toolVars, crawlVars, crawlData, components, ci, pi, filename, retries, success,
                 previousIssues, hasTasksPage, componentsDir, pagesDir, barrel,
                 supportingFiles, attemptLog, componentLog>>

\* second request of a generator: drawn only when it is sent
SecondOutcomes(needed, outcomes) == IF needed THEN outcomes ELSE {ServiceFailure}

\* fs.writeFile of a base component, only if the file does not exist yet
WriteIfAbsent(dir, file, content) ==
  IF Exists(dir, file) THEN dir ELSE WriteFile(dir, file, content)

\* generateBaseComponents(componentsDir, crawlData, extractedComponents)
GenerateBaseComponents ==
  /\ pc = "base"
  /\ LET hasSidebar == \E k \in DOMAIN components : components[k].type = "sidebar"
         hasButton == \E k \in DOMAIN components : components[k].type = "button"
     IN \E first \in (IF hasSidebar THEN {ServiceFailure} ELSE ComponentOutcomes) :
        \E second \in SecondOutcomes(~hasSidebar /\ ComponentNeedsSecondRequest(first),
                                     ComponentOutcomes) :
          LET r == generateComponent(ComponentSidebar, first, second)
              sidebarCode == IF r.code # "" /\ Includes(r.code, "export")
                               THEN r.code ELSE FallbackSidebarCode
              withSidebar == IF hasSidebar THEN componentsDir
                             ELSE WriteIfAbsent(componentsDir, "Sidebar.tsx", sidebarCode)
              withButton == IF hasButton THEN withSidebar
                            ELSE WriteIfAbsent(withSidebar, "Button.tsx", FallbackButtonCode)
          IN componentsDir' = withButton
  /\ pc' = "components"
  /\ ci' = 1
  /\ UNCHANGED <<designTokens, extractVars, toolVars, crawlVars, crawlData, components, pi, filename, retries, success,
                 previousIssues, hasTasksPage, pagesDir, barrel, supportingFiles,
                 attemptLog, componentLog>>

\* generateComponents: one iteration of the loop over the components.
\* Nothing inside its try block throws: buildComponentPrompt reads optional
\* fields only and generateComponent answers every failure with the
\* placeholder.
GenerateComponentStep ==
  /\ pc = "components"
  /\ ci <= Len(components)
  /\ \E first \in ComponentOutcomes :
     \E second \in SecondOutcomes(ComponentNeedsSecondRequest(first), ComponentOutcomes) :
       LET component == components[ci]
           r == generateComponent(component, first, second)
       IN /\ componentsDir' = WriteFile(componentsDir, component.name \o ".tsx", r.code)
          /\ componentLog' = [name |-> component.name, code |-> r.code,
                              calls |-> r.calls, fallback |-> r.fallback]
  /\ ci' = ci + 1
  /\ UNCHANGED <<designTokens, extractVars, toolVars, crawlVars, crawlData, components, pc, pi, filename, retries, success,
                 previousIssues, hasTasksPage, pagesDir, barrel, supportingFiles,
                 attemptLog>>

\* one line of components/index.ts
ExportLine(name) == "export { default as " \o name \o " } from './" \o name \o "';"

\* A variant of generateComponentIndex that exports the components it is
\* given instead of the files it finds
generateComponentIndexFromList(dir, comps) == [k \in DOMAIN comps |-> comps[k].name]

\* generateComponentIndex(components): the names exported, one for every
\* .tsx file the components directory lists; the argument is not read
generateComponentIndex(dir, comps) ==
  LET componentFiles == SelectSeq(Readdir(dir), LAMBDA f : EndsWith(f, ".tsx"))
  IN [k \in DOMAIN componentFiles |-> Basename(componentFiles[k])]

\* generateComponentIndex: one export per .tsx file found in the directory
GenerateComponentIndex ==
  /\ pc = "components"
  /\ ci > Len(components)
  /\ barrel' = generateComponentIndex(componentsDir, components)
  /\ componentsDir' = WriteFile(componentsDir, "index.ts",
                                Join([k \in DOMAIN barrel' |-> ExportLine(barrel'[k])], "\n"))
  /\ componentLog' = NoComponentLog
  /\ pc' = "pages"
  /\ pi' = 1
  /\ UNCHANGED <<designTokens, extractVars, toolVars, crawlVars, crawlData, components, ci, filename, retries, success,
                 previousIssues, hasTasksPage, pagesDir,
                 supportingFiles, attemptLog>>

\* generatePages: the head of the loop over crawlData, for page pi
StartPage ==
  /\ pc = "pages"
  /\ pi <= Len(crawlData)
  /\ LET pageData == crawlData[pi]
         name == FilenameOf[pageData]
     IN /\ filename' = name
        /\ hasTasksPage' = (hasTasksPage \/ name = "TasksPage.tsx")
  /\ retries' = 0
  /\ success' = FALSE
  /\ previousIssues' = NoIssues
  /\ attemptLog' = <<>>
  /\ pc' = "loop"
  /\ UNCHANGED <<designTokens, extractVars, toolVars, crawlVars, crawlData, components, ci, pi, componentsDir, pagesDir, barrel,
                 supportingFiles, componentLog>>

\* One entry of attemptLog
Attempt(threw, prompt, r, issues, wrote, recorded) ==
  [threw |-> threw, prompt |-> prompt, code |-> r.code, calls |-> r.calls,
   fallback |-> r.fallback, issues |-> issues, wrote |-> wrote, recorded |-> recorded]
NoResult == [code |-> "", calls |-> 0, fallback |-> FALSE]

\* A variant of AttemptCatch without the catch block: the exception leaves
\* generatePages and nothing of the run executes any more
AttemptCatchRethrows ==
  /\ FALSE
  /\ UNCHANGED <<retries, success, attemptLog, previousIssues, pagesDir>>

\* catch (error): the attempt threw before anything was validated or written
AttemptCatch ==
  /\ retries' = retries + 1
  /\ success' = (IF retries + 1 >= MAX_RETRIES THEN TRUE ELSE success)
  /\ attemptLog' = Append(attemptLog, Attempt(TRUE, "", NoResult, NoIssues, FALSE, NoIssues))
  /\ UNCHANGED <<previousIssues, pagesDir>>

\* A variant of AttemptSave that counts the attempt instead of setting success
AttemptSaveKeepsLooping(prompt, r) ==
  /\ pagesDir' = WriteFile(pagesDir, filename, r.code)
  /\ retries' = retries + 1
  /\ attemptLog' = Append(attemptLog, Attempt(FALSE, prompt, r, NoIssues, TRUE, NoIssues))
  /\ UNCHANGED <<success, previousIssues>>

\* issues.length === 0: save the valid code
AttemptSave(prompt, r) ==
  /\ pagesDir' = WriteFile(pagesDir, filename, r.code)
  /\ success' = TRUE
  /\ attemptLog' = Append(attemptLog, Attempt(FALSE, prompt, r, NoIssues, TRUE, NoIssues))
  /\ UNCHANGED <<retries, previousIssues>>

\* A variant of AttemptRejected that leaves the loop at the ceiling without
\* the "save anyway" write
AttemptRejectedWithoutSave(prompt, r, issues) ==
  /\ retries' = retries + 1
  /\ previousIssues' = issues
  /\ success' = (IF retries + 1 < MAX_RETRIES THEN success ELSE TRUE)
  /\ attemptLog' = Append(attemptLog, Attempt(FALSE, prompt, r, issues, FALSE, NoIssues))
  /\ UNCHANGED pagesDir

\* A variant of AttemptRejected that keeps the issues of the first rejected
\* attempt instead of replacing them
AttemptRejectedKeepsFirstIssues(prompt, r, issues) ==
  /\ retries' = retries + 1
  /\ previousIssues' = (IF Len(previousIssues) = 0 THEN issues ELSE previousIssues)
  /\ IF retries + 1 < MAX_RETRIES
       THEN /\ attemptLog' = Append(attemptLog,
                                    Attempt(FALSE, prompt, r, issues, FALSE, NoIssues))
            /\ UNCHANGED <<pagesDir, success>>
       ELSE /\ pagesDir' = WriteFile(pagesDir, filename, r.code)
            /\ success' = TRUE
            /\ attemptLog' = Append(attemptLog,
                                    Attempt(FALSE, prompt, r, issues, TRUE, issues))

\* issues.length > 0: count the attempt and keep the issues for the next
\* prompt; at the ceiling save anyway and log the issues
AttemptRejected(prompt, r, issues) ==
  /\ retries' = retries + 1
  /\ previousIssues' = issues
  /\ IF retries + 1 < MAX_RETRIES
       THEN /\ attemptLog' = Append(attemptLog,
                                    Attempt(FALSE, prompt, r, issues, FALSE, NoIssues))
            /\ UNCHANGED <<pagesDir, success>>
       ELSE /\ pagesDir' = WriteFile(pagesDir, filename, r.code)
            /\ success' = TRUE
            /\ attemptLog' = Append(attemptLog,
                                    Attempt(FALSE, prompt, r, issues, TRUE, issues))

\* generatePages: one iteration of while (retries < MAX_RETRIES && !success)
PageAttempt ==
  /\ pc = "loop"
  /\ retries < MAX_RETRIES /\ ~success
  /\ LET pageData == crawlData[pi]
     IN IF PromptThrowsFor[pageData]
          THEN AttemptCatch
          ELSE \E first \in PageOutcomes :
               \E second \in SecondOutcomes(PageNeedsSecondRequest(first), PageOutcomes) :
                 LET prompt == PromptFor[<<pageData, components, previousIssues>>]
                     r == generatePage(pageData, components, first, second)
                     issues == IssuesOf[<<r.code, filename>>]
                 IN IF Len(issues) = 0
                      THEN AttemptSave(prompt, r)
                      ELSE AttemptRejected(prompt, r, issues)
  /\ UNCHANGED <<designTokens, extractVars, toolVars, crawlVars, crawlData, components, pc, ci, pi, filename, hasTasksPage,
                 componentsDir, barrel, supportingFiles, componentLog>>

\* The while loop of the current page has ended
LoopEnded == pc = "loop" /\ ~(retries < MAX_RETRIES /\ ~success)

\* generatePages: the loop of page pi is over; filename, retries, success and
\* previousIssues are locals of the for body and end with the iteration
EndPage ==
  /\ LoopEnded
  /\ pi' = pi + 1
  /\ pc' = "pages"
  /\ filename' = ""
  /\ retries' = 0
  /\ success' = FALSE
  /\ previousIssues' = NoIssues
  /\ attemptLog' = <<>>
  /\ UNCHANGED <<designTokens, extractVars, toolVars, crawlVars, crawlData, components, ci, hasTasksPage, componentsDir, pagesDir,
                 barrel, supportingFiles, componentLog>>

\* generatePages after the last page: TaskDetailPage if a tasks page was seen
FinishPages ==
  /\ pc = "pages"
  /\ pi > Len(crawlData)
  /\ pagesDir' = (IF hasTasksPage
                    THEN WriteFile(pagesDir, "TaskDetailPage.tsx", TaskDetailPageCode)
                    ELSE pagesDir)
  /\ pc' = "supporting"
  /\ UNCHANGED <<designTokens, extractVars, toolVars, crawlVars, crawlData, components, ci, pi, filename, retries, success,
                 previousIssues, hasTasksPage, componentsDir, barrel,
                 supportingFiles, attemptLog, componentLog>>

\* generateSupportingFiles: the manifest, the configs, App.tsx, ...
GenerateSupportingFiles ==
  /\ pc = "supporting"
  /\ supportingFiles' = generateSupportingFiles(supportingFiles, pagesDir, designTokens)
  /\ pc' = "done"
  /\ UNCHANGED <<designTokens, extractVars, toolVars, crawlVars, crawlData, components, ci, pi, filename, retries, success,
                 previousIssues, hasTasksPage, componentsDir, pagesDir, barrel,
                 attemptLog, componentLog>>

Next ==
  \/ SetupAppStructure
  \/ GenerateBaseComponents
  \/ GenerateComponentStep
  \/ GenerateComponentIndex
  \/ StartPage
  \/ PageAttempt
  \/ EndPage
  \/ FinishPages
  \/ GenerateSupportingFiles

Spec == Init /\ [][Next]_vars

\* generateReactApp is one sequential async function: each step runs when the
\* one before it has returned, and every request to the service ends with an
\* answer or an error
FairSpec == Spec /\ WF_vars(Next)

\* --------------------------------------------------------------------------
\* What the attempt log says
\* --------------------------------------------------------------------------

\* the attempts of the current page that wrote the page's file
Writes == {k \in DOMAIN attemptLog : attemptLog[k].wrote}

\* the requests sent to the generation service for the current page
RECURSIVE RequestsSent(_)
RequestsSent(log) ==
  IF Len(log) = 0 THEN 0 ELSE log[1].calls + RequestsSent(Tail(log))

AllIssues ==
  {IssueButtons, IssueCheckboxes, IssueTextInputs, IssueAdd, IssueDelete, IssueEdit,
   IssueToggle, IssueUseState, IssueNavigate, IssueProjectAdd, IssueProjectEdit,
   IssueProjectDelete}

\* What a prompt text says about earlier violations: whether it has the
\* corrective section, and the issues it lists there as bullets
CorrectiveSection(prompt) ==
  [present |-> Includes(prompt, "REQUIRED FUNCTIONALITY IMPROVEMENTS"),
   items |-> {issue \in AllIssues : Includes(prompt, Bullet \o " " \o issue \o "\n")}]

Prompts == {PromptFor[call] : call \in DOMAIN PromptFor}
CorrectiveSectionOf == [prompt \in Prompts |-> CorrectiveSection(prompt)]

\* the issues of the latest attempt before attempt k that was validated
PreviousValidation(k) ==
  LET validated == {j \in 1..(k - 1) : ~attemptLog[j].threw}
  IN IF validated = {} THEN NoIssues
     ELSE attemptLog[CHOOSE j \in validated : \A i \in validated : i <= j].issues

LastAttempt == attemptLog[Len(attemptLog)]

\* --------------------------------------------------------------------------
\* Claims
\* --------------------------------------------------------------------------

\* C1: when the loop of a page ends, exactly one write of the page's file has
\* happened, whatever the checklist outcomes, service outcomes and exceptions
\* of its attempts were.
C1_ExactlyOneWrite == LoopEnded => Cardinality(Writes) = 1

\* C2: the loop of a page sends at most ceiling + 1 requests to the generation
\* service, the second request of generatePage included.
C2_RequestsWithinCeilingPlusOne == RequestsSent(attemptLog) <= MAX_RETRIES + 1

\* C3: an attempt answered with the placeholder page (a service failure) is
\* the page's last attempt and its text is written: no generation call
\* follows it.
C3_PlaceholderIsFinal ==
  \A k \in DOMAIN attemptLog :
    attemptLog[k].fallback => (k = Len(attemptLog) /\ attemptLog[k].wrote)

C6_PassingTextIsSavedAndFinal ==
  \A k \in DOMAIN attemptLog :
    (~attemptLog[k].threw /\ Len(attemptLog[k].issues) = 0) =>
      /\ k = Len(attemptLog)
      /\ Writes = {k}
      /\ Exists(pagesDir, filename)
      /\ pagesDir[filename] = attemptLog[k].code
      /\ LoopEnded

C6_Witness ==
  /\ Len(attemptLog) = 2
  /\ Len(attemptLog[1].issues) > 0
  /\ ~attemptLog[2].threw
  /\ Len(attemptLog[2].issues) = 0
  /\ attemptLog[2].code # attemptLog[1].code

\* C7: a failure on one component or page never stops the run: every run
\* gets to its end with every component and page processed, a file for
\* every component, a file for every page whose attempts did not throw, and
\* the supporting files written.
RunCompleted ==
  /\ pc = "done"
  /\ ci > Len(components)
  /\ pi > Len(crawlData)
  /\ \A k \in DOMAIN components : Exists(componentsDir, components[k].name \o ".tsx")
  /\ \A k \in DOMAIN crawlData :
       ~PromptThrowsFor[crawlData[k]] => Exists(pagesDir, FilenameOf[crawlData[k]])
  /\ DOMAIN supportingFiles = SupportingFileNames
C7_FailuresNeverStopTheRun == <>RunCompleted

\* the run is over; the service failed for the first component, every attempt
\* of the first page threw, and the second page was saved at the ceiling
C7_Witness ==
  /\ RunCompleted
  /\ Len(components) = 2
  /\ componentsDir[components[1].name \o ".tsx"] = FallbackComponentFor[components[1]]
  /\ Len(crawlData) = 2
  /\ PromptThrowsFor[crawlData[1]]
  /\ ~PromptThrowsFor[crawlData[2]]
  /\ pagesDir[FilenameOf[crawlData[2]]] = CodeNoClick

\* C8: a component text that fails the check made on component texts (it has
\* neither import nor export) is written only once the attempt ceiling is
\* reached.
C8_ComponentFollowsPageProtocol ==
  (componentLog.name # "" /\ ~componentLog.fallback
     /\ ~HasImportOrExport[componentLog.code])
    => componentLog.calls >= MAX_RETRIES

\* --------------------------------------------------------------------------
\* The checklist on its own: one text of the family is validated under one
\* file name, and the prompt of the following attempt is built
\* --------------------------------------------------------------------------
InitChecklist ==
  /\ crawlData \in {<<p>> : p \in ChecklistPages}
  /\ components = <<>>
  /\ pc = "validate"
  /\ ci = 1
  /\ pi = 1
  /\ filename = FilenameOf[crawlData[1]]
  /\ retries = 0
  /\ success = FALSE
  /\ previousIssues = NoIssues
  /\ hasTasksPage = FALSE
  /\ componentsDir = EmptyDir
  /\ pagesDir = EmptyDir
  /\ barrel = <<>>
  /\ supportingFiles = EmptyDir
  /\ attemptLog = <<>>
  /\ componentLog = NoComponentLog
  /\ designTokens = NoTokens
  /\ ExtractIdle
  /\ CrawlIdle
  /\ ToolIdle

\* const issues = validatePageFunctionality(code, filename)
ValidateText ==
  /\ pc = "validate"
  /\ \E code \in ChecklistTexts :
       LET issues == validatePageFunctionality(code, filename)
           r == [code |-> code, calls |-> 1, fallback |-> FALSE]
       IN /\ attemptLog' = <<Attempt(FALSE, "", r, issues, FALSE, NoIssues)>>
          /\ previousIssues' = issues
  /\ pc' = "prompt"
  /\ UNCHANGED <<designTokens, extractVars, toolVars, crawlVars, crawlData, components, ci, pi, filename, retries, success,
                 hasTasksPage, componentsDir, pagesDir, barrel, supportingFiles,
                 componentLog>>

\* const prompt = await buildPagePrompt(pageData, components, previousIssues)
BuildNextPrompt ==
  /\ pc = "prompt"
  /\ attemptLog' = Append(attemptLog,
                          Attempt(FALSE,
                                  buildPagePrompt(crawlData[pi], components, previousIssues),
                                  NoResult, NoIssues, FALSE, NoIssues))
  /\ pc' = "prompted"
  /\ UNCHANGED <<designTokens, extractVars, toolVars, crawlVars, crawlData, components, ci, pi, filename, retries, success,
                 previousIssues, hasTasksPage, componentsDir, pagesDir, barrel,
                 supportingFiles, componentLog>>

NextChecklist ==
  \/ ValidateText
  \/ BuildNextPrompt

SpecChecklist == InitChecklist /\ [][NextChecklist]_vars

\* the text validated and the prompt built after it
Validated == attemptLog[1]
NextPrompt == attemptLog[2].prompt

\* the issues the items for task list pages and project pages add
NavigationIssues ==
  PushIf(Includes(filename, "Task") /\ Includes(Validated.code, "tasks.map")
           /\ ~Includes(Validated.code, "useNavigate"), IssueNavigate)
ProjectIssues ==
  IF Includes(filename, "Project") /\ Includes(Validated.code, "project")
    THEN <<IssueProjectAdd, IssueProjectEdit, IssueProjectDelete>> ELSE <<>>

PageFileText(file) == IF file = "TaskDetailPage.tsx" THEN TaskDetailPageCode ELSE CodeFull
PageDirectories ==
  {[file \in names |-> PageFileText(file)] : names \in SUBSET Range(PageFileOrder)}

InitMaterialize ==
  /\ crawlData = <<>>
  /\ components = <<>>
  /\ pc = "supporting"
  /\ ci = 1
  /\ pi = 1
  /\ filename = ""
  /\ retries = 0
  /\ success = FALSE
  /\ previousIssues = NoIssues
  /\ hasTasksPage = FALSE
  /\ componentsDir = EmptyDir
  /\ pagesDir \in PageDirectories
  /\ barrel = <<>>
  /\ supportingFiles = EmptyDir
  /\ attemptLog = <<>>
  /\ componentLog = NoComponentLog
  /\ designTokens \in TokenChoices
  /\ ExtractIdle
  /\ CrawlIdle
  /\ ToolIdle

\* generateSupportingFiles(designTokens) called again on the project it has
\* just written
GenerateSupportingFilesAgain ==
  /\ pc = "done"
  /\ supportingFiles' = generateSupportingFiles(supportingFiles, pagesDir, designTokens)
  /\ pc' = "done twice"
  /\ UNCHANGED <<designTokens, extractVars, toolVars, crawlVars, crawlData, components, ci, pi,
                 filename, retries, success, previousIssues, hasTasksPage,
                 componentsDir, pagesDir, barrel, attemptLog, componentLog>>

NextMaterialize ==
  \/ GenerateSupportingFiles
  \/ GenerateSupportingFilesAgain

SpecMaterialize == InitMaterialize /\ [][NextMaterialize]_vars

\* the text of src/App.tsx
AppTsx == supportingFiles["src/App.tsx"]
\* the names of the page files the route table is built from
PageNames == {Basename(file) : file \in DOMAIN pagesDir}
RoutePaths == {"/", "/projects", "/tasks", "/tasks/:id"}
\* the entries of the route table: the (path, page) pairs App.tsx has a
\* Route line for
RouteTable ==
  {entry \in RoutePaths \X {Basename(file) : file \in Range(PageFileOrder)} :
     Includes(AppTsx, RouteLine(entry[1], entry[2]))}

\* C11 as stated: for the page files HomePage, ProjectsPage, TasksPage and
\* TaskDetailPage the route table is exactly / -> HomePage, /projects ->
\* ProjectsPage, /tasks -> TasksPage and /tasks/:id -> TaskDetailPage.
C11_RouteTableOfTheFourPages ==
  (pc = "done" /\ PageNames = {"HomePage", "ProjectsPage", "TasksPage", "TaskDetailPage"})
    => RouteTable = {<<"/", "HomePage">>, <<"/projects", "ProjectsPage">>,
                     <<"/tasks", "TasksPage">>, <<"/tasks/:id", "TaskDetailPage">>}

\* C12: the path of a page file's route is given by its name alone: /projects
\* for a name holding "Projects", otherwise /tasks for a name holding "Tasks"
\* and not "Detail", and / for every other name; among the three paths the
\* page has a route for that one only, whatever other files the directory
\* holds.
C12_RoutePathFollowsTheName ==
  pc = "done" =>
    \A name \in PageNames :
      LET expected == IF Includes(name, "Projects") THEN "/projects"
                      ELSE IF Includes(name, "Tasks") /\ ~Includes(name, "Detail")
                        THEN "/tasks"
                      ELSE "/"
      IN \A path \in {"/", "/projects", "/tasks"} :
           (<<path, name>> \in RouteTable) <=> (path = expected)

C12_Witness ==
  /\ pc = "done"
  /\ PageNames = {"ProjectsPage", "TasksPage", "SettingsPage"}
  /\ RouteTable = {<<"/projects", "ProjectsPage">>, <<"/tasks", "TasksPage">>,
                   <<"/", "SettingsPage">>}

\* C17: generateSupportingFiles run a second time on the same pages and the
\* same design tokens leaves every file it writes with the content the first
\* run gave it.
C17_MaterializationIsIdempotent ==
  [][pc' = "done twice" => supportingFiles' = supportingFiles]_vars

C17_Witness ==
  /\ pc = "done twice"
  /\ designTokens = TokensDark
  /\ "TaskDetailPage" \in PageNames
  /\ Includes(supportingFiles["tailwind.config.js"], "'bg-dark': '#1e1f21'")
  /\ <<"/tasks/:id", "TaskDetailPage">> \in RouteTable

\* --------------------------------------------------------------------------
\* detectComponent on its own: identifyLayoutComponents is called on a
\* structure of one node
\* --------------------------------------------------------------------------
GenerationIdle ==
  /\ crawlData = <<>>
  /\ components = <<>>
  /\ ci = 1
  /\ pi = 1
  /\ filename = ""
  /\ retries = 0
  /\ success = FALSE
  /\ previousIssues = NoIssues
  /\ hasTasksPage = FALSE
  /\ componentsDir = EmptyDir
  /\ pagesDir = EmptyDir
  /\ barrel = <<>>
  /\ supportingFiles = EmptyDir
  /\ attemptLog = <<>>
  /\ componentLog = NoComponentLog
  /\ designTokens = NoTokens

generationVars ==
  <<crawlData, components, ci, pi, filename, retries, success, previousIssues,
    hasTasksPage, componentsDir, pagesDir, barrel, supportingFiles, attemptLog,
    componentLog, designTokens>>

InitDetect ==
  /\ GenerationIdle
  /\ CrawlIdle
  /\ ToolIdle
  /\ pc = "identify"
  /\ structure \in Nodes
  /\ layoutComponents = <<>>
  /\ allComponents = <<>>
  /\ uniqueComponents = <<>>

\* const layoutComponents = identifyLayoutComponents(structure, pageData)
IdentifyLayoutComponents ==
  /\ pc = "identify"
  /\ layoutComponents' = identifyLayoutComponents(structure)
  /\ pc' = "identified"
  /\ UNCHANGED <<generationVars, crawlVars, toolVars, structure, allComponents, uniqueComponents>>

NextDetect == IdentifyLayoutComponents

SpecDetect == InitDetect /\ [][NextDetect]_vars

\* the rules that match the node, by their place in the fixed order
MatchingRules == {k \in DOMAIN RuleOrder : RuleMatches(RuleOrder[k], structure)}

\* C14: a node yields at most one candidate: none when no rule matches it,
\* otherwise the candidate of the first rule that matches it in the order
\* header, sidebar, main, card, list, button, form, modal.
C14_FirstMatchingRuleWins ==
  pc = "identified" =>
    IF MatchingRules = {} THEN layoutComponents = <<>>
    ELSE LET first == CHOOSE k \in MatchingRules : \A j \in MatchingRules : k <= j
         IN /\ Len(layoutComponents) = 1
            /\ layoutComponents[1].type = RuleOrder[first]
            /\ layoutComponents[1].name = RuleName[RuleOrder[first]]

\* an aside whose class holds "header" is tagged as a header
C14_Witness ==
  /\ pc = "identified"
  /\ structure = Node("aside", "", <<"app-header">>)
  /\ Cardinality(MatchingRules) = 2
  /\ Len(layoutComponents) = 1
  /\ layoutComponents[1].type = "header"

\* --------------------------------------------------------------------------
\* deduplicateComponents on its own: extractComponents has collected the
\* candidates of every page and deduplicates them
\* --------------------------------------------------------------------------
InitDeduplicate ==
  /\ GenerationIdle
  /\ CrawlIdle
  /\ ToolIdle
  /\ pc = "deduplicate"
  /\ structure = NoNode
  /\ layoutComponents = <<>>
  /\ allComponents \in CandidateLists
  /\ uniqueComponents = <<>>

\* const uniqueComponents = deduplicateComponents(allComponents)
DeduplicateComponents ==
  /\ pc = "deduplicate"
  /\ uniqueComponents' = deduplicateComponents(allComponents)
  /\ pc' = "deduplicated"
  /\ UNCHANGED <<generationVars, crawlVars, toolVars, structure, layoutComponents, allComponents>>

NextDeduplicate == DeduplicateComponents

SpecDeduplicate == InitDeduplicate /\ [][NextDeduplicate]_vars

\* the pages the candidates with a key come from
PagesOfKey(key) ==
  {allComponents[k].pageUrl : k \in {j \in DOMAIN allComponents :
                                       ComponentKey(allComponents[j]) = key}}

\* C13: deduplicateComponents returns exactly one candidate for every (type,
\* name) pair of its input, and when the candidates of a pair come from
\* different pages the candidate kept lists the URL of every one of them.
C13_OnePerPairWithEveryPage ==
  pc = "deduplicated" =>
    /\ {ComponentKey(uniqueComponents[k]) : k \in DOMAIN uniqueComponents}
         = {ComponentKey(allComponents[k]) : k \in DOMAIN allComponents}
    /\ \A i, j \in DOMAIN uniqueComponents :
         ComponentKey(uniqueComponents[i]) = ComponentKey(uniqueComponents[j]) => i = j
    /\ \A k \in DOMAIN uniqueComponents :
         LET origins == PagesOfKey(ComponentKey(uniqueComponents[k]))
         IN Cardinality(origins) > 1 => origins \subseteq Range(uniqueComponents[k].pages)

\* three headers from three pages become one header that lists the three
C13_Witness ==
  /\ pc = "deduplicated"
  /\ Len(allComponents) = 3
  /\ Len(uniqueComponents) = 1
  /\ uniqueComponents[1].type = "header"
  /\ uniqueComponents[1].pages = PageUrls

\* --------------------------------------------------------------------------
\* A rerun: generateReactApp is called on a project an earlier run has left,
\* for a crawl list with two project pages
\* --------------------------------------------------------------------------

\* the text of a file written by the earlier run
StaleCode == "// written by the run before"
\* The earlier run extracted a Card and neither a sidebar nor a button, and
\* crawled the home page
StaleComponentsDir ==
  [file \in {"Button.tsx", "Card.tsx", "Sidebar.tsx", "index.ts"} |-> StaleCode]
StalePagesDir == [file \in {"HomePage.tsx"} |-> StaleCode]
RerunCrawlLists ==
  {xs \in DistinctSeqs({PageProjects, PageProjectList}, MaxPages) : Len(xs) > 0}

InitRerun ==
  /\ crawlData \in RerunCrawlLists
  /\ components \in ComponentLists
  /\ pc = "setup"
  /\ ci = 1
  /\ pi = 1
  /\ filename = ""
  /\ retries = 0
  /\ success = FALSE
  /\ previousIssues = NoIssues
  /\ hasTasksPage = FALSE
  /\ componentsDir = StaleComponentsDir
  /\ pagesDir = StalePagesDir
  /\ barrel = <<>>
  /\ supportingFiles = [file \in SupportingFileNames |-> StaleCode]
  /\ attemptLog = <<>>
  /\ componentLog = NoComponentLog
  /\ designTokens = NoTokens
  /\ ExtractIdle
  /\ CrawlIdle
  /\ ToolIdle

SpecRerun == InitRerun /\ [][Next]_vars

\* generateComponentIndex has written the barrel file
BarrelWritten == pc \in {"pages", "loop", "supporting", "done"}
TsxFiles(dir) == {file \in DOMAIN dir : EndsWith(file, ".tsx")}

\* C15: the barrel file has exactly one export for every .tsx file the
\* components directory holds when it is written, files of an earlier run
\* and fallback files included, and none for a file the directory lacks.
C15_BarrelListsTheDirectory ==
  BarrelWritten =>
    /\ Range(barrel) = {Basename(file) : file \in TsxFiles(componentsDir)}
    /\ \A i, j \in DOMAIN barrel : barrel[i] = barrel[j] => i = j
    /\ \A name \in {Basename(file) : file \in Range(ComponentFileOrder)} :
         Includes(componentsDir["index.ts"], ExportLine(name))
           <=> Exists(componentsDir, name \o ".tsx")

\* the barrel exports the Card an earlier run left, the Button fallback, and
\* the Header generated in this run
C15_Witness ==
  /\ BarrelWritten
  /\ components = <<ComponentHeader>>
  /\ barrel = <<"Button", "Card", "Header", "Sidebar">>
  /\ componentsDir["Card.tsx"] = StaleCode

\* C16 as stated: after a rerun every file the run produces holds content of
\* this run; in particular a Sidebar.tsx or Button.tsx an earlier run left
\* in the components directory has been replaced.
C16_RerunReplacesBaseComponents ==
  pc = "done" =>
    /\ componentsDir["Sidebar.tsx"] # StaleCode
    /\ componentsDir["Button.tsx"] # StaleCode

\* C18 as stated: no page file written in a run is written again in the same
\* run: a write of generatePages goes to a path that no page of this run has
\* been written to.
C18_NoPageOverwritesAnother ==
  [][(pc = "loop" /\ pagesDir' # pagesDir)
       => (~Exists(pagesDir, filename) \/ pagesDir[filename] = StaleCode)]_vars

\* --------------------------------------------------------------------------
\* The full pipeline up to the call of generateReactApp (index.js, main, and
\* crawler.js, crawlPages)
\* --------------------------------------------------------------------------

\* The keys process.env can hold
EnvironmentKeys == REQUIRED_KEYS \cup {"ASANA_EMAIL", "ASANA_PASSWORD"}

\* The pages getPagesToCrawl names, each with whether crawlPage will succeed
\* on it
CrawlPlans ==
  {plan \in UNION {[1..n -> [page : CrawledPages, loads : BOOLEAN]] : n \in 1..MaxPages} :
     \A i, j \in DOMAIN plan : i # j => plan[i].page # plan[j].page}

InitPipeline ==
  /\ GenerationIdle
  /\ ExtractIdle
  /\ ToolIdle
  /\ pc = "main"
  /\ env \in SUBSET EnvironmentKeys
  /\ pagesToCrawl = <<>>
  /\ crawlIndex = 1
  /\ results = <<>>
  /\ exitCode = Running
  /\ error = ""

\* throw new Error(message): control goes to the catch block of main
Throw(message) ==
  /\ error' = message
  /\ pc' = "thrown"

\* A variant of validateEnvironment that lets a run without the keys go on
validateEnvironmentOnlyWarns ==
  /\ pc = "main"
  /\ pc' = "directories"
  /\ UNCHANGED <<generationVars, extractVars, toolVars, env, pagesToCrawl, crawlIndex, results,
                 exitCode, error>>

\* validateEnvironment()
validateEnvironment ==
  /\ pc = "main"
  /\ LET missing == {key \in REQUIRED_KEYS : key \notin env}
     IN IF missing # {}
          THEN Throw("Missing required environment variables")
          ELSE pc' = "directories" /\ UNCHANGED error
  /\ UNCHANGED <<generationVars, extractVars, toolVars, env, pagesToCrawl, crawlIndex, results,
                 exitCode>>

\* setupDirectories(): ensureDir of the output directories, no file is written
setupDirectories ==
  /\ pc = "directories"
  /\ pc' = "authenticate"
  /\ UNCHANGED <<generationVars, extractVars, toolVars, crawlVars>>

\* crawlPages: authenticate(page) if the credentials are set; its failure
\* leaves crawlPages through the finally block
Authenticate ==
  /\ pc = "authenticate"
  /\ IF "ASANA_EMAIL" \in env /\ "ASANA_PASSWORD" \in env
       THEN \E authenticated \in BOOLEAN :
              IF authenticated THEN pc' = "list" /\ UNCHANGED error
              ELSE Throw("Authentication failed")
       ELSE pc' = "list" /\ UNCHANGED error
  /\ UNCHANGED <<generationVars, extractVars, toolVars, env, pagesToCrawl, crawlIndex, results,
                 exitCode>>

\* crawlPages: const pages = getPagesToCrawl(workspaceInfo)
GetPagesToCrawl ==
  /\ pc = "list"
  /\ pagesToCrawl' \in CrawlPlans
  /\ crawlIndex' = 1
  /\ results' = <<>>
  /\ pc' = "crawl"
  /\ UNCHANGED <<generationVars, extractVars, toolVars, env, exitCode, error>>

\* A variant of CrawlPage that leaves the loop at the first page that fails
CrawlPageStopsAtFailure ==
  /\ pc = "crawl"
  /\ crawlIndex <= Len(pagesToCrawl)
  /\ IF pagesToCrawl[crawlIndex].loads
       THEN /\ results' = Append(results, pagesToCrawl[crawlIndex].page)
            /\ crawlIndex' = crawlIndex + 1
            /\ \E hasStylesheets \in BOOLEAN :
                 outputFiles' = WriteCapture(outputFiles, crawlIndex - 1,
                                             pagesToCrawl[crawlIndex].page, hasStylesheets)
       ELSE /\ crawlIndex' = Len(pagesToCrawl) + 1
            /\ UNCHANGED <<results, outputFiles>>
  /\ UNCHANGED <<generationVars, extractVars, pc, env, pagesToCrawl, exitCode, error,
                 validateVars, batchVars, cssVars, captureVars, extractionResults,
                 loadIndex, regenerated>>

\* crawlPages: one iteration of the loop over pages; an error of crawlPage
\* is caught and logged
CrawlPage ==
  /\ pc = "crawl"
  /\ crawlIndex <= Len(pagesToCrawl)
  /\ IF pagesToCrawl[crawlIndex].loads
       THEN /\ results' = Append(results, pagesToCrawl[crawlIndex].page)
            /\ \E hasStylesheets \in BOOLEAN :
                 outputFiles' = WriteCapture(outputFiles, crawlIndex - 1,
                                             pagesToCrawl[crawlIndex].page, hasStylesheets)
       ELSE UNCHANGED <<results, outputFiles>>
  /\ crawlIndex' = crawlIndex + 1
  /\ UNCHANGED <<generationVars, extractVars, pc, env, pagesToCrawl, exitCode, error,
                 validateVars, batchVars, cssVars, captureVars, extractionResults,
                 loadIndex, regenerated>>

\* crawlPages: the loop is over, the browser is closed, results is returned
\* to main
CrawlPagesReturns ==
  /\ pc = "crawl"
  /\ crawlIndex > Len(pagesToCrawl)
  /\ crawlData' = results
  /\ pc' = "crawled"
  /\ UNCHANGED <<components, ci, pi, filename, retries, success, previousIssues,
                 hasTasksPage, componentsDir, pagesDir, barrel, supportingFiles,
                 attemptLog, componentLog, designTokens, extractVars, toolVars, crawlVars>>

\* main: if (!crawlData || crawlData.length === 0) throw
CheckCrawl ==
  /\ pc = "crawled"
  /\ IF Len(crawlData) = 0
       THEN Throw("No pages were crawled successfully")
       ELSE pc' = "extract" /\ UNCHANGED error
  /\ UNCHANGED <<generationVars, extractVars, toolVars, env, pagesToCrawl, crawlIndex, results,
                 exitCode>>

\* main: const components = await extractComponents(crawlData), for whatever
\* structure the pages have; saveExtractionResults writes the pages and the
\* components to extraction-results.json and generateReactApp is called
ExtractAndGenerate ==
  /\ pc = "extract"
  /\ components' \in ComponentLists
  /\ extractionResults' = Saved(crawlData)
  /\ pc' = "setup"
  /\ UNCHANGED <<crawlData, ci, pi, filename, retries, success, previousIssues,
                 hasTasksPage, componentsDir, pagesDir, barrel, supportingFiles,
                 attemptLog, componentLog, designTokens, extractVars, crawlVars,
                 validateVars, batchVars, cssVars, captureVars, outputFiles,
                 loadIndex, regenerated>>

\* main: catch (error): the error is printed and the process exits with 1
CatchAndExit ==
  /\ pc = "thrown"
  /\ exitCode' = 1
  /\ pc' = "exited"
  /\ UNCHANGED <<generationVars, extractVars, toolVars, env, pagesToCrawl, crawlIndex, results,
                 error>>

NextPipeline ==
  \/ validateEnvironment
  \/ setupDirectories
  \/ Authenticate
  \/ GetPagesToCrawl
  \/ CrawlPage
  \/ CrawlPagesReturns
  \/ CheckCrawl
  \/ ExtractAndGenerate
  \/ CatchAndExit

SpecPipeline == InitPipeline /\ [][NextPipeline]_vars

\* the generation phase has been started
GenerationStarted == pc = "setup"
\* no file of the generated project exists
NoGeneratedFile ==
  /\ componentsDir = EmptyDir
  /\ pagesDir = EmptyDir
  /\ supportingFiles = EmptyDir

\* C19: a run with a required key missing, a failed authentication or no
\* page crawled ends with exit code 1 and a printed error, never starts the
\* generation phase and writes no file of the generated project.
C19_SetupFailureAborts ==
  /\ (REQUIRED_KEYS \subseteq env) \/ pc \in {"main", "thrown", "exited"}
  /\ error # "" => (pc \in {"thrown", "exited"} /\ NoGeneratedFile)
  /\ pc = "exited" => (exitCode = 1 /\ error # "")
  /\ exitCode \in {Running, 1}
  /\ GenerationStarted =>
       (error = "" /\ REQUIRED_KEYS \subseteq env /\ Len(crawlData) > 0)

\* the run had every key, authenticated, and crawled no page: it has exited
\* with 1
C19_Witness ==
  /\ pc = "exited"
  /\ exitCode = 1
  /\ error = "No pages were crawled successfully"
  /\ env = EnvironmentKeys
  /\ Len(pagesToCrawl) = 2
  /\ NoGeneratedFile

\* the pages of the crawl list crawlPage has succeeded on, in list order
RECURSIVE CrawledOf(_)
CrawledOf(plan) ==
  IF Len(plan) = 0 THEN <<>>
  ELSE (IF plan[1].loads THEN <<plan[1].page>> ELSE <<>>) \o CrawledOf(Tail(plan))

CodeInlineHeader == CodeFull \o "\n<header className=\"h-12\">Tasks</header>"
CodeWithoutState ==
  "import React from 'react';\n<button onClick={open}>Open</button>\nexport default Page;"
CodeWithSidebar ==
  "import { Sidebar } from '../components';\n" \o CodeFull \o "\n<Sidebar />"
ValidateTexts == {CodeFull, CodeNoClick, CodeInlineHeader, CodeWithoutState, CodeWithSidebar}

ValidateFileNames == {"HomePage.tsx", "TasksPage.tsx", "ProjectsPage.tsx", "README.md"}
ValidateDirectories ==
  UNION {[names -> ValidateTexts] : names \in SUBSET ValidateFileNames}

ValidateIssuesOf ==
  [call \in Scripts \X ValidateTexts |-> validatePagesIssues(call[1], call[2])]
LoopIssuesOf ==
  [call \in ValidateTexts \X ValidateFileNames |->
     validatePageFunctionality(call[1], call[2])]

InitValidateOnly ==
  /\ crawlData = <<>>
  /\ components = <<>>
  /\ pc = "validate pages"
  /\ ci = 1
  /\ pi = 1
  /\ filename = ""
  /\ retries = 0
  /\ success = FALSE
  /\ previousIssues = NoIssues
  /\ hasTasksPage = FALSE
  /\ componentsDir = EmptyDir
  /\ pagesDir \in ValidateDirectories
  /\ barrel = <<>>
  /\ supportingFiles = EmptyDir
  /\ attemptLog = <<>>
  /\ componentLog = NoComponentLog
  /\ designTokens = NoTokens
  /\ ExtractIdle
  /\ CrawlIdle
  /\ script \in Scripts
  /\ pageFiles = <<>>
  /\ fileIndex = 1
  /\ passCount = 0
  /\ failCount = 0
  /\ report = <<>>
  /\ BatchIdle
  /\ CssIdle
  /\ RegenerateIdle
  /\ CaptureIdle

notValidateVars ==
  <<generationVars, extractVars, crawlVars, batchVars, cssVars, regenerateVars,
    captureVars>>

\* const files = await fs.readdir(PAGES_DIR); const pageFiles = files.filter(...)
ReadPagesDir ==
  /\ pc = "validate pages"
  /\ pageFiles' = SelectSeq(Readdir(pagesDir), IsPageFile)
  /\ pc' = "validating"
  /\ UNCHANGED <<notValidateVars, script, fileIndex, passCount, failCount, report>>

ReportLine(file, issues) == [file |-> file, pass |-> issues = <<>>, issues |-> issues]

\* A variant of ValidateFile that counts a file with issues as passing too
ValidateFileCountsPassAlways ==
  /\ pc = "validating"
  /\ fileIndex <= Len(pageFiles)
  /\ LET file == pageFiles[fileIndex]
         issues == ValidateIssuesOf[<<script, pagesDir[file]>>]
     IN /\ passCount' = passCount + 1
        /\ failCount' = (IF issues = <<>> THEN failCount ELSE failCount + 1)
        /\ report' = Append(report, ReportLine(file, issues))
  /\ fileIndex' = fileIndex + 1
  /\ UNCHANGED <<notValidateVars, pc, script, pageFiles>>

\* validatePages: one iteration of the loop over pageFiles
ValidateFile ==
  /\ pc = "validating"
  /\ fileIndex <= Len(pageFiles)
  /\ LET file == pageFiles[fileIndex]
         content == pagesDir[file]
         issues == ValidateIssuesOf[<<script, content>>]
     IN /\ passCount' = (IF issues = <<>> THEN passCount + 1 ELSE passCount)
        /\ failCount' = (IF issues = <<>> THEN failCount ELSE failCount + 1)
        /\ report' = Append(report, ReportLine(file, issues))
  /\ fileIndex' = fileIndex + 1
  /\ UNCHANGED <<notValidateVars, pc, script, pageFiles>>

\* validatePages: the loop is over, the totals are printed
PrintTotals ==
  /\ pc = "validating"
  /\ fileIndex > Len(pageFiles)
  /\ pc' = "validated"
  /\ UNCHANGED <<notValidateVars, validateVars>>

NextValidateOnly ==
  \/ ReadPagesDir
  \/ ValidateFile
  \/ PrintTotals

SpecValidateOnly == InitValidateOnly /\ [][NextValidateOnly]_vars

\* the page files of the pages directory
PageFilesOf(dir) == {file \in DOMAIN dir : IsPageFile(file)}
\* the lines printed for a file
LinesOf(file) == {k \in DOMAIN report : report[k].file = file}
PassLines == {k \in DOMAIN report : report[k].pass}

\* C21: validate-only mode sends no request to the generation service and
\* writes or deletes no file, every generated file is as it was when the run
\* is over, and each page file has been counted exactly once, as a pass or
\* as a fail.
C21_ValidateOnlyOnlyReads ==
  /\ [][/\ pagesDir' = pagesDir
        /\ componentsDir' = componentsDir
        /\ supportingFiles' = supportingFiles
        /\ attemptLog' = attemptLog
        /\ componentLog' = componentLog]_vars
  /\ [](/\ attemptLog = <<>>
        /\ componentLog = NoComponentLog
        /\ passCount = Cardinality(PassLines)
        /\ failCount = Len(report) - Cardinality(PassLines)
        /\ \A file \in DOMAIN pagesDir : Cardinality(LinesOf(file)) <= 1
        /\ pc = "validated" =>
             \A file \in DOMAIN pagesDir :
               Cardinality(LinesOf(file)) = (IF IsPageFile(file) THEN 1 ELSE 0))

\* a run over three page files and a file that is not a page: two passed
\* and one failed
C21_Witness ==
  /\ pc = "validated"
  /\ DOMAIN pagesDir = ValidateFileNames
  /\ passCount = 2
  /\ failCount = 1

\* C22: validate-only mode runs the checklist of the generation loop: a text
\* validatePageFunctionality has no issue with is reported as passing, and a
\* text it has an issue with is reported as failing.
C22_SameChecklistAsTheLoop ==
  \A k \in DOMAIN report :
    report[k].pass = (LoopIssuesOf[<<pagesDir[report[k].file], report[k].file>>] = <<>>)

\* --------------------------------------------------------------------------
\* batchGenerate (llm.js): items are handed to generateFn a batch at a time
\* --------------------------------------------------------------------------
\* how the promise generateFn returns for an item settles
Settlements == {"fulfilled", "rejected"}
ItemLists == UNION {[1..n -> Settlements] : n \in 0..MaxItems}

InitBatch ==
  /\ GenerationIdle
  /\ ExtractIdle
  /\ CrawlIdle
  /\ ValidateIdle
  /\ CssIdle
  /\ RegenerateIdle
  /\ CaptureIdle
  /\ pc = "batch loop"
  /\ items \in ItemLists
  /\ batchSize \in 1..MaxBatchSize
  /\ batchStart = 0
  /\ requestState = [k \in DOMAIN items |-> "not called"]
  /\ batchResults = <<>>
  /\ sleeps = <<>>

notBatchVars ==
  <<generationVars, extractVars, crawlVars, validateVars, cssVars, regenerateVars,
    captureVars>>

\* items.slice(i, i + batchSize), as the positions of the items (from 1)
BatchSlice(list, i, size) ==
  {k \in DOMAIN list : i < k /\ k <= i + size}

\* batch.map(generateFn): generateFn is called on every item of the batch
\* and the promises are handed to Promise.all
StartBatch ==
  /\ pc = "batch loop"
  /\ batchStart < Len(items)
  /\ requestState' = [k \in DOMAIN items |->
                        IF k \in BatchSlice(items, batchStart, batchSize)
                          THEN "pending" ELSE requestState[k]]
  /\ pc' = "awaiting batch"
  /\ UNCHANGED <<notBatchVars, items, batchSize, batchStart, batchResults, sleeps>>

\* the promise of one item settles
RequestSettles ==
  /\ \E k \in DOMAIN items :
       /\ requestState[k] = "pending"
       /\ requestState' = [requestState EXCEPT ![k] = items[k]]
  /\ UNCHANGED <<notBatchVars, pc, items, batchSize, batchStart, batchResults, sleeps>>

\* the positions of a set, in increasing order
RECURSIVE Ascending(_)
Ascending(set) ==
  IF set = {} THEN <<>>
  ELSE LET least == CHOOSE k \in set : \A j \in set : k <= j
       IN <<least>> \o Ascending(set \ {least})

\* A variant of BatchFulfilled that awaits the delay after every batch
BatchFulfilledAlwaysSleeps ==
  /\ pc = "awaiting batch"
  /\ \A k \in BatchSlice(items, batchStart, batchSize) : requestState[k] = "fulfilled"
  /\ batchResults' = batchResults \o Ascending(BatchSlice(items, batchStart, batchSize))
  /\ pc' = "sleeping"
  /\ sleeps' = Append(sleeps, batchStart)
  /\ UNCHANGED <<notBatchVars, items, batchSize, batchStart, requestState>>

\* Promise.all is fulfilled: the results of the batch are pushed, and the
\* delay is awaited if items are left
BatchFulfilled ==
  /\ pc = "awaiting batch"
  /\ \A k \in BatchSlice(items, batchStart, batchSize) : requestState[k] = "fulfilled"
  /\ batchResults' = batchResults \o Ascending(BatchSlice(items, batchStart, batchSize))
  /\ IF batchStart + batchSize < Len(items)
       THEN /\ pc' = "sleeping"
            /\ sleeps' = Append(sleeps, batchStart)
            /\ UNCHANGED batchStart
       ELSE /\ pc' = "batch loop"
            /\ batchStart' = batchStart + batchSize
            /\ UNCHANGED sleeps
  /\ UNCHANGED <<notBatchVars, items, batchSize, requestState>>

\* Promise.all is rejected as soon as one promise of the batch is: the
\* await throws and batchGenerate is left
BatchRejected ==
  /\ pc = "awaiting batch"
  /\ \E k \in BatchSlice(items, batchStart, batchSize) : requestState[k] = "rejected"
  /\ pc' = "batch thrown"
  /\ UNCHANGED <<notBatchVars, batchVars>>

\* the delay is over: i += batchSize
DelayElapsed ==
  /\ pc = "sleeping"
  /\ batchStart' = batchStart + batchSize
  /\ pc' = "batch loop"
  /\ UNCHANGED <<notBatchVars, items, batchSize, requestState, batchResults, sleeps>>

\* the loop is over: return results
ReturnResults ==
  /\ pc = "batch loop"
  /\ batchStart >= Len(items)
  /\ pc' = "batch returned"
  /\ UNCHANGED <<notBatchVars, batchVars>>

NextBatch ==
  \/ StartBatch
  \/ RequestSettles
  \/ BatchFulfilled
  \/ BatchRejected
  \/ DelayElapsed
  \/ ReturnResults

SpecBatch == InitBatch /\ [][NextBatch]_vars

InFlight == {k \in DOMAIN items : requestState[k] = "pending"}
Settled == {k \in DOMAIN items : requestState[k] \in Settlements}
\* the batch of an item, from 0
BatchOf(k) == (k - 1) \div batchSize
\* the number of batches of the list
BatchCount == (Len(items) + batchSize - 1) \div batchSize

\* C23: at most batchSize requests are in flight, no request of a batch is
\* started before every request of the batches before it has completed, and
\* the delay is awaited between two batches only: with no request in
\* flight, never after the last batch, once after every other batch.
C23_FixedSizeBatches ==
  /\ Cardinality(InFlight) <= batchSize
  /\ \A j, k \in DOMAIN items :
       (BatchOf(j) < BatchOf(k) /\ requestState[k] # "not called") => j \in Settled
  /\ pc = "sleeping" => InFlight = {}
  /\ \A n \in DOMAIN sleeps :
       /\ sleeps[n] = (n - 1) * batchSize
       /\ sleeps[n] + batchSize < Len(items)
  /\ pc = "batch returned" =>
       /\ Len(sleeps) = (IF BatchCount = 0 THEN 0 ELSE BatchCount - 1)
       /\ batchResults = Ascending(DOMAIN items)

\* five items were generated in batches of two: three batches, two delays
C23_Witness ==
  /\ pc = "batch returned"
  /\ Len(items) = 5
  /\ batchSize = 2
  /\ sleeps = <<0, 2>>
  /\ Len(batchResults) = 5

\* --------------------------------------------------------------------------
\* The generation phase with a service that may leave a request without any
\* answer: the await of client.chat.completions.create is given no timeout
\* and is raced against nothing, so it resumes only when the service answers
\* or the request fails
\* --------------------------------------------------------------------------
\* generatePage: the request is sent and no answer or failure ever arrives
PageRequestUnanswered ==
  /\ pc = "loop"
  /\ retries < MAX_RETRIES /\ ~success
  /\ ~PromptThrowsFor[crawlData[pi]]
  /\ pc' = "awaiting page completion"
  /\ UNCHANGED <<generationVars, extractVars, crawlVars, toolVars>>

\* generateComponent: the request is sent and no answer or failure ever
\* arrives
ComponentRequestUnanswered ==
  /\ pc = "components"
  /\ ci <= Len(components)
  /\ pc' = "awaiting component completion"
  /\ UNCHANGED <<generationVars, extractVars, crawlVars, toolVars>>

NextSilentService ==
  \/ Next
  \/ PageRequestUnanswered
  \/ ComponentRequestUnanswered

\* Node runs whatever can run: a step that is possible is eventually taken
SpecSilentService ==
  Init /\ [][NextSilentService]_vars /\ WF_vars(NextSilentService)

AwaitingCompletion ==
  pc \in {"awaiting page completion", "awaiting component completion"}

\* C24: a generation call the service never answers still ends, as a
\* transport failure answered with the placeholder, so that the loop and the
\* run come to their end.
C24_UnansweredCallEnds == AwaitingCompletion ~> (pc = "done")

\* --------------------------------------------------------------------------
\* parseCSSFiles on the stylesheets captured for a page
\* --------------------------------------------------------------------------
\* Colors are written from their red, green and blue parts in the three
\* notations: rgb(r, g, b), rgba(r,g,b,0.5) and #rrggbb

FormatRgb(t) ==
  "rgb(" \o ToDecimal(t[1]) \o ", " \o ToDecimal(t[2]) \o ", " \o ToDecimal(t[3]) \o ")"
FormatRgba(t) ==
  "rgba(" \o ToDecimal(t[1]) \o "," \o ToDecimal(t[2]) \o "," \o ToDecimal(t[3]) \o ",0.5)"
FormatHex(t) == "#" \o ToHex2(t[1]) \o ToHex2(t[2]) \o ToHex2(t[3])
NotationsOf(t) == {FormatRgb(t), FormatRgba(t), FormatHex(t)}

\* the parts on both sides of brightness 128: 128 128 128 has brightness 128
Levels == {0, 127, 128, 255}
LevelTriples == Levels \X Levels \X Levels
\* two dark colors and a light one, for the stylesheets with several declarations
Palette == {FormatRgb(<<46, 46, 48>>), FormatHex(<<30, 31, 33>>), FormatRgb(<<255, 255, 255>>)}
Triples == LevelTriples \cup {<<46, 46, 48>>, <<30, 31, 33>>}
ColorTexts == UNION {NotationsOf(t) : t \in Triples}
TripleOf == [c \in ColorTexts |-> CHOOSE t \in Triples : c \in NotationsOf(t)]

ColorProperties == {"background-color", "color", "border-color"}
PaletteDeclarations == {Declaration(p, c) : p \in {"background-color", "color"}, c \in Palette}
Stylesheets(n) == UNION {[1..k -> PaletteDeclarations] : k \in 0..n}
CssDirectories ==
  {<<>>}
  \cup {<< <<Declaration(p, c)>> >> : p \in ColorProperties, c \in ColorTexts}
  \cup {<<sheet>> : sheet \in Stylesheets(MaxDeclarations)}
  \cup {<<first, second>> : first \in Stylesheets(1), second \in Stylesheets(1)}

InitCss ==
  /\ GenerationIdle
  /\ ExtractIdle
  /\ CrawlIdle
  /\ ValidateIdle
  /\ BatchIdle
  /\ RegenerateIdle
  /\ CaptureIdle
  /\ pc = "css readdir"
  /\ cssDirectory \in CssDirectories
  /\ cssFileIndex = 1
  /\ styleData = EmptyStyleData
  /\ buckets = NoBuckets
  /\ cssTokens = EmptyTokens
  /\ parsedCSS = NotParsed

notCssVars ==
  <<generationVars, extractVars, crawlVars, validateVars, batchVars, regenerateVars,
    captureVars>>

\* parseCSSFiles: catch (error) after fs.readdir or fs.readFile has thrown
ReturnNullAfterReadError ==
  /\ parsedCSS' = Null
  /\ pc' = "css returned after read error"

\* const files = await fs.readdir(cssDirectory)
ReadCssDirectory ==
  /\ pc = "css readdir"
  /\ \E readable \in BOOLEAN :
       IF readable THEN pc' = "css files" /\ UNCHANGED parsedCSS
       ELSE ReturnNullAfterReadError
  /\ UNCHANGED <<notCssVars, cssDirectory, cssFileIndex, styleData, buckets, cssTokens>>

\* parseCSSFiles: one iteration of the loop over cssFiles
ExtractFile ==
  /\ pc = "css files"
  /\ cssFileIndex <= Len(cssDirectory)
  /\ \E readable \in BOOLEAN :
       IF readable
         THEN /\ styleData' = extractStyles(cssDirectory[cssFileIndex], styleData)
              /\ cssFileIndex' = cssFileIndex + 1
              /\ UNCHANGED <<pc, parsedCSS>>
         ELSE /\ ReturnNullAfterReadError
              /\ UNCHANGED <<styleData, cssFileIndex>>
  /\ UNCHANGED <<notCssVars, cssDirectory, buckets, cssTokens>>

\* categorizeColors(styleData): the background colors
CategorizeBackgrounds ==
  /\ pc = "css files"
  /\ cssFileIndex > Len(cssDirectory)
  /\ \E bg \in {backgroundTokens(styleData, EmptyTokens)} :
       /\ buckets' = [buckets EXCEPT !.darkBgs = bg.dark, !.lightBgs = bg.light]
       /\ cssTokens' = bg.tokens
  /\ pc' = "css text colors"
  /\ UNCHANGED <<notCssVars, cssDirectory, cssFileIndex, styleData, parsedCSS>>

\* categorizeColors: the text colors
CategorizeText ==
  /\ pc = "css text colors"
  /\ \E text \in {textTokens(styleData, cssTokens)} :
       /\ buckets' = [buckets EXCEPT !.darkText = text.dark, !.lightText = text.light]
       /\ cssTokens' = text.tokens
  /\ pc' = "css accents"
  /\ UNCHANGED <<notCssVars, cssDirectory, cssFileIndex, styleData, parsedCSS>>

\* categorizeColors: allColors.filter(c => isVibranthColor(c)). No function
\* of that name exists (the one defined is isVibrantColor): the callback
\* throws a ReferenceError on the first color, which parseCSSFiles catches
CategorizeAccents ==
  /\ pc = "css accents"
  /\ IF Len(styleData.colors) > 0
       THEN /\ parsedCSS' = Null
            /\ pc' = "css returned"
       ELSE /\ pc' = "css borders"
            /\ UNCHANGED parsedCSS
  /\ UNCHANGED <<notCssVars, cssDirectory, cssFileIndex, styleData, buckets, cssTokens>>

\* categorizeColors: the border colors and return tokens; parseCSSFiles
\* returns the arrays with the tokens
CategorizeBordersAndReturn ==
  /\ pc = "css borders"
  /\ cssTokens' = borderTokens(styleData, cssTokens)
  /\ parsedCSS' = Parsed(styleData, cssTokens')
  /\ pc' = "css returned"
  /\ UNCHANGED <<notCssVars, cssDirectory, cssFileIndex, styleData, buckets>>

NextCss ==
  \/ ReadCssDirectory
  \/ ExtractFile
  \/ CategorizeBackgrounds
  \/ CategorizeText
  \/ CategorizeAccents
  \/ CategorizeBordersAndReturn

SpecCss == InitCss /\ [][NextCss]_vars

\* the color has brightness below 128: 299 r + 587 g + 114 b < 128000
BelowThreshold(c) ==
  299 * TripleOf[c][1] + 587 * TripleOf[c][2] + 114 * TripleOf[c][3] < 128000

BackgroundsAnalysed ==
  pc \in {"css text colors", "css accents", "css borders", "css returned"}
TextAnalysed == pc \in {"css accents", "css borders", "css returned"}

\* the places of the declarations in the stylesheets
DeclarationPlaces ==
  UNION {{<<f, d>> : d \in DOMAIN cssDirectory[f]} : f \in DOMAIN cssDirectory}
\* the colors the stylesheets declare
DeclaredColors == {cssDirectory[place[1]][place[2]].value : place \in DeclarationPlaces}

\* C25: a color written rgb(r,g,b), rgba(r,g,b,a) or #rrggbb is dark exactly
\* when 299 r + 587 g + 114 b < 128000, and the background and text colors
\* are put in the dark or in the light bucket by that.
C25_DarkBelowBrightness128 ==
  /\ \A c \in DeclaredColors : isDarkColor(c) = BelowThreshold(c)
  /\ BackgroundsAnalysed =>
       \A c \in Range(styleData.backgroundColors) :
         /\ ArrayIncludes(buckets.darkBgs, c) = BelowThreshold(c)
         /\ ArrayIncludes(buckets.lightBgs, c) = ~BelowThreshold(c)
  /\ TextAnalysed =>
       \A c \in Range(styleData.textColors) :
         /\ ArrayIncludes(buckets.darkText, c) = BelowThreshold(c)
         /\ ArrayIncludes(buckets.lightText, c) = ~BelowThreshold(c)

\* the background #808080, of brightness 128 exactly, is in the light
\* bucket
C25_Witness ==
  /\ BackgroundsAnalysed
  /\ buckets.lightBgs = <<FormatHex(<<128, 128, 128>>)>>
  /\ buckets.darkBgs = <<>>

\* how many declarations of the properties have the value c
DeclaredCount(properties, c) ==
  Cardinality({place \in DeclarationPlaces :
                 /\ cssDirectory[place[1]][place[2]].property \in properties
                 /\ cssDirectory[place[1]][place[2]].value = c})

\* the token is a member of the bucket declared at least as often as every
\* other member
MostDeclared(key, properties, bucket) ==
  key \in DOMAIN cssTokens =>
    \A c \in Range(bucket) :
      DeclaredCount(properties, c) <= DeclaredCount(properties, cssTokens[key])

\* xs in the opposite order
ReverseOf(xs) == [k \in DOMAIN xs |-> xs[Len(xs) + 1 - k]]
\* styleData after the loop over the files of a directory
RECURSIVE ExtractAll(_, _)
ExtractAll(dir, data) ==
  IF Len(dir) = 0 THEN data ELSE ExtractAll(Tail(dir), extractStyles(dir[1], data))
\* the tokens of the background and text colors for the stylesheets with
\* the files and the declarations of each file in the opposite order
TokensInOppositeOrder ==
  LET reversed == ReverseOf([f \in DOMAIN cssDirectory |-> ReverseOf(cssDirectory[f])])
      data == ExtractAll(reversed, EmptyStyleData)
  IN textTokens(data, backgroundTokens(data, EmptyTokens).tokens).tokens

NamedBuckets ==
  {"backgrounds.dark", "backgrounds.light", "text.primary", "text.light", "borders.default"}

\* C26: the named buckets do not depend on the order of the declarations and
\* hold a value of the highest occurrence count.
C26_TokensByFrequencyInAnyOrder ==
  /\ BackgroundsAnalysed =>
       /\ MostDeclared("backgrounds.dark", {"background-color"}, buckets.darkBgs)
       /\ MostDeclared("backgrounds.light", {"background-color"}, buckets.lightBgs)
  /\ TextAnalysed =>
       /\ MostDeclared("text.primary", {"color"}, buckets.darkText)
       /\ MostDeclared("text.light", {"color"}, buckets.lightText)
       /\ \A key \in NamedBuckets \cap DOMAIN cssTokens :
            cssTokens[key] = TokensInOppositeOrder[key]
  /\ MostDeclared("borders.default", BorderProperties, styleData.borderColors)

\* C28: parseCSSFiles returns null only when reading the directory or one of
\* its files fails: when every read succeeds it returns the sets of values
\* it extracted, with the design tokens.
C28_NullOnlyAfterReadError ==
  /\ pc = "css returned after read error" => parsedCSS = Null
  /\ pc = "css returned" =>
       /\ parsedCSS.status = "value"
       /\ parsedCSS = Parsed(styleData, cssTokens)

\* --------------------------------------------------------------------------
\* Regenerate-only mode: a later run reads extraction-results.json and the
\* files of the output directory that the full pipeline has left, and calls
\* generateReactApp on them
\* --------------------------------------------------------------------------
notRegenerateVars ==
  <<extractVars, validateVars, batchVars, cssVars, captureVars>>

\* main of the regenerate script, up to the loop: without
\* extraction-results.json it throws, prints the error and exits with 1
StartRegenerate ==
  /\ pc \in {"setup", "exited"}
  /\ IF extractionResults.saved
       THEN /\ pc' = "regenerate load"
            /\ UNCHANGED <<error, exitCode>>
       ELSE /\ error' = "No extraction results found. Run \"npm run crawl\" first."
            /\ exitCode' = 1
            /\ pc' = "regenerate exited"
  /\ loadIndex' = 0
  /\ regenerated' = <<>>
  /\ UNCHANGED <<generationVars, notRegenerateVars, env, pagesToCrawl, crawlIndex,
                 results, outputFiles, extractionResults>>

\* what the loop pushes for results.pages[i]
Loaded(pageData, files, index) ==
  [page |-> pageData,
   html |-> files[HtmlPath(index)],
   hasComputedStyles |-> Exists(files, CssPath(index)),
   computedStyles |-> IF Exists(files, CssPath(index)) THEN files[CssPath(index)]
                      ELSE pageData,
   hasStylesheets |-> Exists(files, CssDir(index)),
   stylesheets |-> IF Exists(files, CssDir(index)) THEN files[CssDir(index)]
                   ELSE pageData]

\* main: one iteration of the loop over results.pages
LoadPage ==
  /\ pc = "regenerate load"
  /\ loadIndex < Len(extractionResults.pages)
  /\ regenerated' =
       (IF Exists(outputFiles, HtmlPath(loadIndex))
          THEN Append(regenerated,
                      Loaded(extractionResults.pages[loadIndex + 1], outputFiles, loadIndex))
          ELSE regenerated)
  /\ loadIndex' = loadIndex + 1
  /\ UNCHANGED <<generationVars, notRegenerateVars, crawlVars, pc, outputFiles,
                 extractionResults>>

\* main: await generateReactApp(components, crawlData)
CallGenerateReactApp ==
  /\ pc = "regenerate load"
  /\ loadIndex >= Len(extractionResults.pages)
  /\ crawlData' = [k \in DOMAIN regenerated |-> regenerated[k].page]
  /\ pc' = "regenerating"
  /\ UNCHANGED <<components, ci, pi, filename, retries, success, previousIssues,
                 hasTasksPage, componentsDir, pagesDir, barrel, supportingFiles,
                 attemptLog, componentLog, designTokens, extractVars, crawlVars,
                 toolVars>>

NextRegenerate ==
  \/ NextPipeline
  \/ StartRegenerate
  \/ LoadPage
  \/ CallGenerateReactApp

SpecRegenerate == InitPipeline /\ [][NextRegenerate]_vars

\* the page is paired with the files captured for it
PairedWithItsFiles(entry) ==
  /\ entry.html = entry.page
  /\ entry.hasComputedStyles => entry.computedStyles = entry.page
  /\ entry.hasStylesheets => entry.stylesheets = entry.page

\* C27: regenerate-only mode pairs every page of extraction-results.json
\* with the HTML, computed-style and stylesheet files captured for that
\* page, and hands every recorded page to the generation, also when a page
\* listed before it failed and was skipped by the crawl.
C27_EveryRecordedPageWithItsFiles ==
  /\ \A k \in DOMAIN regenerated : PairedWithItsFiles(regenerated[k])
  /\ pc = "regenerating" =>
       [k \in DOMAIN regenerated |-> regenerated[k].page] = extractionResults.pages

\* --------------------------------------------------------------------------
\* crawlPage: the response handler registered with page.on('response'), for
\* the stylesheet responses (status 2xx, content type text/css) of one page.
\* Every response starts its own run of the async handler, and the runs
\* interleave at the await of response.text()
\* --------------------------------------------------------------------------
CSS_LIMIT == 5

InitCapture ==
  /\ GenerationIdle
  /\ ExtractIdle
  /\ CrawlIdle
  /\ ValidateIdle
  /\ BatchIdle
  /\ CssIdle
  /\ RegenerateIdle
  /\ pc = "page loading"
  /\ responses \in {[k \in 1..n |-> "not received"] : n \in 0..MaxResponses}
  /\ capturedCss = <<>>

notCaptureVars ==
  <<generationVars, extractVars, crawlVars, validateVars, batchVars, cssVars,
    regenerateVars>>

\* the handler runs for a response up to its await: the length is tested
\* and response.text() is called
ResponseReceived ==
  /\ \E k \in DOMAIN responses :
       /\ responses[k] = "not received"
       /\ responses' = [responses EXCEPT ![k] =
                          IF Len(capturedCss) < CSS_LIMIT THEN "awaiting text"
                          ELSE "skipped"]
  /\ UNCHANGED <<notCaptureVars, pc, capturedCss>>

\* response.text() has settled and the handler resumes: a text that is not
\* null and is shorter than 500000 characters is pushed
TextRead ==
  /\ \E k \in DOMAIN responses : \E kept \in BOOLEAN :
       /\ responses[k] = "awaiting text"
       /\ responses' = [responses EXCEPT ![k] = "handled"]
       /\ capturedCss' = (IF kept THEN Append(capturedCss, k) ELSE capturedCss)
  /\ UNCHANGED <<notCaptureVars, pc>>

NextCapture ==
  \/ ResponseReceived
  \/ TextRead

SpecCapture == InitCapture /\ [][NextCapture]_vars

\* C29: at most 5 stylesheets are captured during the crawl of a page,
\* however the runs of the response handler interleave.
C29_AtMostFiveStylesheets == Len(capturedCss) <= CSS_LIMIT

\* --------------------------------------------------------------------------
\* The barrel and the imports of TaskDetailPage
\* --------------------------------------------------------------------------
\* the names TaskDetailPage.tsx imports from '../components'
TaskDetailImports ==
  {name \in {Basename(file) : file \in Range(ComponentFileOrder)} :
     \/ Includes(TaskDetailPageCode, "{ " \o name \o ",")
     \/ Includes(TaskDetailPageCode, ", " \o name \o " } from '../components'")}

\* C30: when generateReactApp has completed and TaskDetailPage.tsx was
\* written, the barrel exports every component that page imports (Header
\* and Sidebar), whatever components were extracted.
C30_BarrelExportsTaskDetailImports ==
  (pc = "done" /\ Exists(pagesDir, "TaskDetailPage.tsx")) =>
    \A name \in TaskDetailImports :
      /\ ArrayIncludes(barrel, name)
      /\ Exists(componentsDir, "index.ts")
      /\ Includes(componentsDir["index.ts"], ExportLine(name))

====
